---- MODULE Spec2Model ----
(***************************************************************************)
(* State-machine model of the smalltx rules engine (src/state.js) and of   *)
(* the turn controller that drives it (src/game.js).                       *)
(*                                                                         *)
(* The JavaScript `state` object is the record variable `state`; unit      *)
(* objects live in state.U (indexed by identity) because the program keeps *)
(* references to unit objects after they left state.units.  The DOM parts  *)
(* that carry control flow are separate variables: the unit picker modal,  *)
(* the damage allocation modal, the pending setTimeout callbacks and the   *)
(* disabled flag of the End-Phase button.  unitTypeCounters is the         *)
(* module-level counter object of src/state.js.                            *)
(***************************************************************************)
EXTENDS Integers, Sequences, FiniteSets, TLC

VARIABLES state, unitPicker, damageModal, timers, btnDisabled, hist,
          unitTypeCounters

vars ==
    <<state, unitPicker, damageModal, timers, btnDisabled, hist,
      unitTypeCounters>>

(***************************************************************************)
(* Bounds of the exploration.                                              *)
(***************************************************************************)
MaxMoves == 2        \* moveUnit calls explored per run
MaxRound == 1        \* rounds explored from StartRound on
MaxTimers == 2       \* pending setTimeout callbacks explored at once
MaxRejects == 1      \* rejected target clicks explored in a row
StartRound == 3      \* the round in which the explored positions arise

(***************************************************************************)
(* Program constants.                                                      *)
(***************************************************************************)
NoUnit == 0          \* null unit reference
BoardSize == 6
MaxHp == 5
EndPhaseDelay == 300
NoAbilitiesDelay == 1600
CombatDelay == 1600 + 1600
MeleeDelay == 1200 + 1600
RangedDelay == 1800 + 1600
CastleDelay == 1800 + 1600
WinDelay == 1000

ARCHERS == "Archers"
CANNON == "Cannon"
MOUNTED == "Mounted"
ASSAULT_BEASTS == "Assault Beasts"
SPEARS == "Spears"
JESTERS == "Jesters"
MUSKETS == "Muskets"
AERIAL == "Aerial"
COMMANDER == "Commander"
MILITIA == "Militia"
BATTERY_RAM == "Battery Ram"

UnitTypes ==
    {ARCHERS, CANNON, MOUNTED, ASSAULT_BEASTS, SPEARS, JESTERS,
     MUSKETS, AERIAL, COMMANDER, MILITIA, BATTERY_RAM}

SETUP == "setup"
FACTION_1 == "faction_1"
FACTION_2 == "faction_2"
ABILITY_TARGETING == "ability_targeting"
RESOLUTION_COMBAT == "resolution_combat"
RESOLUTION_MELEE == "resolution_melee"
RESOLUTION_RANGED == "resolution_ranged"
RESOLUTION_CASTLE == "resolution_castle"
GAME_OVER == "game_over"

GamePhase ==
    {SETUP, FACTION_1, FACTION_2, ABILITY_TARGETING, RESOLUTION_COMBAT,
     RESOLUTION_MELEE, RESOLUTION_RANGED, RESOLUTION_CASTLE, GAME_OVER}

(***************************************************************************)
(* Small helpers.                                                          *)
(***************************************************************************)
Abs(x) == IF x < 0 THEN -x ELSE x

Max2(a, b) == IF a >= b THEN a ELSE b

Max3(a, b, c) == Max2(a, Max2(b, c))

Range(q) == {q[i] : i \in DOMAIN q}

Other(faction) == IF faction = 1 THEN 2 ELSE 1

RECURSIVE SumSeq(_)
SumSeq(q) == IF q = << >> THEN 0 ELSE Head(q) + SumSeq(Tail(q))

(***************************************************************************)
(* Unit registry.                                                          *)
(***************************************************************************)
createUnit(type, faction, row, col) ==
    [type |-> type, faction |-> faction, row |-> row, col |-> col,
     damage |-> 0, maxHp |-> MaxHp, movedThisTurn |-> FALSE,
     lastTarget |-> NoUnit]

NoTargeting ==
    [isSet |-> FALSE, active |-> FALSE, currentPlayer |-> 0,
     selections |-> << >>, unitsToTarget |-> << >>]

\* let unitTypeCounters = { 1: {}, 2: {} }: a missing entry counts as 0
NoCounters == [f \in {1, 2} |-> [t \in UnitTypes |-> 0]]

\* the counters after createUnit has made the units of the sequence
countersAfter(units) ==
    [f \in {1, 2} |-> [t \in UnitTypes |->
        Cardinality({k \in DOMAIN units :
                        units[k].faction = f /\ units[k].type = t})]]

\* createUnit with its side effect: the unit with its number, and the
\* counters after the call
numberedUnit(counters, type, faction, row, col) ==
    LET unitNumber == counters[faction][type] + 1
    IN  [unit |-> [number |-> unitNumber] @@ createUnit(type, faction, row, col),
         counters |-> [counters EXCEPT ![faction][type] = unitNumber]]

createGameState ==
    [phase |-> SETUP, round |-> 1, U |-> << >>, units |-> << >>,
     destroyedUnits |-> [f \in {1, 2} |-> << >>],
     castleDamage |-> [f \in {1, 2} |-> 0],
     consecutiveDamageRounds |-> [f \in {1, 2} |-> 0],
     batteryRamWin |-> 0,
     selectedUnit |-> NoUnit, validMoves |-> {},
     activatedUnits |-> {}, pendingSecondMove |-> NoUnit,
     abilityTargeting |-> NoTargeting, commanderTarget |-> NoUnit,
     unitsInCombatThisTurn |-> {}, log |-> << >>]

(***************************************************************************)
(* Geometry and occupancy (src/state.js).                                  *)
(***************************************************************************)
isAlive(u) == u.damage < u.maxHp

getUnitsAt(s, row, col) ==
    SelectSeq(s.units, LAMBDA i :
        s.U[i].row = row /\ s.U[i].col = col /\ s.U[i].damage < s.U[i].maxHp)

getFactionUnitsAt(s, row, col, faction) ==
    SelectSeq(getUnitsAt(s, row, col), LAMBDA i : s.U[i].faction = faction)

isEngaged(s, i) ==
    Len(getFactionUnitsAt(s, s.U[i].row, s.U[i].col, Other(s.U[i].faction))) > 0

toCube(row, col) ==
    [x |-> col, y |-> -col - (row - (col \div 2)), z |-> row - (col \div 2)]

\* the z difference taken with its sign
hexDistance_signed(r1, c1, r2, c2) ==
    LET a == toCube(r1, c1)
        b == toCube(r2, c2)
    IN  Max3(Abs(a.x - b.x), Abs(a.y - b.y), a.z - b.z)

hexDistance(r1, c1, r2, c2) ==
    LET a == toCube(r1, c1)
        b == toCube(r2, c2)
    IN  Max3(Abs(a.x - b.x), Abs(a.y - b.y), Abs(a.z - b.z))

isValidHex(row, col) ==
    row >= 0 /\ row < BoardSize /\ col >= 0 /\ col < BoardSize

\* the offsets of the even columns used for every column
getAdjacentHexes_even(row, col) ==
    LET offsets == << <<-1, -1>>, <<0, -1>>, <<-1, 0>>, <<1, 0>>, <<-1, 1>>, <<0, 1>> >>
        mapped == [k \in 1..6 |-> <<row + offsets[k][1], col + offsets[k][2]>>]
    IN  SelectSeq(mapped, LAMBDA h :
            h[1] >= 0 /\ h[1] < BoardSize /\ h[2] >= 0 /\ h[2] < BoardSize)

getAdjacentHexes(row, col) ==
    LET offsets ==
            IF col % 2 = 1
            THEN << <<0, -1>>, <<1, -1>>, <<-1, 0>>, <<1, 0>>, <<0, 1>>, <<1, 1>> >>
            ELSE << <<-1, -1>>, <<0, -1>>, <<-1, 0>>, <<1, 0>>, <<-1, 1>>, <<0, 1>> >>
        mapped == [k \in 1..6 |-> <<row + offsets[k][1], col + offsets[k][2]>>]
    IN  SelectSeq(mapped, LAMBDA h :
            h[1] >= 0 /\ h[1] < BoardSize /\ h[2] >= 0 /\ h[2] < BoardSize)

getCastleRow(faction) == IF faction = 1 THEN 5 ELSE 0

\* applyDamage with the sign of the amount lost
applyDamage_minus(s, i, amount) ==
    [s EXCEPT !.U[i].damage = @ - amount]

applyDamage(s, i, amount) ==
    [s EXCEPT !.U[i].damage = @ + amount]

\* the dead units are put on the list of their own player
removeDeadUnits_own(s) ==
    LET dead == SelectSeq(s.units, LAMBDA i : ~isAlive(s.U[i]))
    IN  [s EXCEPT
            !.destroyedUnits = [f \in {1, 2} |->
                @[f] \o SelectSeq(dead, LAMBDA i : s.U[i].faction = f)],
            !.units = SelectSeq(s.units, LAMBDA i : isAlive(s.U[i]))]

removeDeadUnits(s) ==
    LET dead == SelectSeq(s.units, LAMBDA i : ~isAlive(s.U[i]))
    IN  [s EXCEPT
            !.destroyedUnits = [f \in {1, 2} |->
                @[f] \o SelectSeq(dead, LAMBDA i : Other(s.U[i].faction) = f)],
            !.units = SelectSeq(s.units, LAMBDA i : isAlive(s.U[i]))]

(***************************************************************************)
(* Castle damage and win evaluation (src/state.js).                        *)
(***************************************************************************)
unitsInCastle(s, faction) ==
    SelectSeq(s.units, LAMBDA i :
        /\ s.U[i].faction = faction
        /\ s.U[i].row = getCastleRow(Other(faction))
        /\ isAlive(s.U[i]))

\* the count without the engagement test
castleDamageDealt_all(s, faction) ==
    Len(unitsInCastle(s, faction))

castleDamageDealt(s, faction) ==
    Len(SelectSeq(unitsInCastle(s, faction), LAMBDA i : ~isEngaged(s, i)))

\* one iteration of the loop over [1, 2]; returned = the early return was taken
CastleForFaction(s, faction) ==
    LET inCastle == unitsInCastle(s, faction)
        ram == \E k \in DOMAIN inCastle :
                  /\ s.U[inCastle[k]].type = BATTERY_RAM
                  /\ ~isEngaged(s, inCastle[k])
        dealt == castleDamageDealt(s, faction)
    IN  IF ram
        THEN [s |-> [s EXCEPT !.batteryRamWin = faction], returned |-> TRUE]
        ELSE [s |-> IF dealt > 0
                    THEN [s EXCEPT !.castleDamage[Other(faction)] = @ + dealt]
                    ELSE s,
              returned |-> FALSE]

\* the units of Player 2 are evaluated first
calculateCastleDamage_reversed(s) ==
    LET r2 == CastleForFaction(s, 2)
    IN  IF r2.returned THEN r2.s ELSE CastleForFaction(r2.s, 1).s

calculateCastleDamage(s) ==
    LET r1 == CastleForFaction(s, 1)
    IN  IF r1.returned THEN r1.s ELSE CastleForFaction(r1.s, 2).s

NoWinner == [winner |-> 0, reason |-> "none"]

\* the difference rule with its limit one too high
checkWinCondition_limit3(s) ==
    LET diff == s.castleDamage[1] - s.castleDamage[2]
        streaks ==
            IF diff = 1
            THEN [s.consecutiveDamageRounds EXCEPT ![1] = @ + 1, ![2] = 0]
            ELSE IF diff = -1
                 THEN [s.consecutiveDamageRounds EXCEPT ![2] = @ + 1, ![1] = 0]
                 ELSE [f \in {1, 2} |-> 0]
        s2 == [s EXCEPT !.consecutiveDamageRounds = streaks]
    IN  IF s.batteryRamWin # 0
        THEN [s |-> s, result |-> [winner |-> s.batteryRamWin, reason |-> "ram"]]
        ELSE IF diff >= 3
        THEN [s |-> s, result |-> [winner |-> 2, reason |-> "diff"]]
        ELSE IF diff <= -3
        THEN [s |-> s, result |-> [winner |-> 1, reason |-> "diff"]]
        ELSE IF streaks[1] >= 2
        THEN [s |-> s2, result |-> [winner |-> 2, reason |-> "streak"]]
        ELSE IF streaks[2] >= 2
        THEN [s |-> s2, result |-> [winner |-> 1, reason |-> "streak"]]
        ELSE [s |-> s2, result |-> NoWinner]

\* the streak rule that forgets to reset the other counter
checkWinCondition_noReset(s) ==
    LET diff == s.castleDamage[1] - s.castleDamage[2]
        streaks ==
            IF diff = 1
            THEN [s.consecutiveDamageRounds EXCEPT ![1] = @ + 1]
            ELSE IF diff = -1
                 THEN [s.consecutiveDamageRounds EXCEPT ![2] = @ + 1]
                 ELSE [f \in {1, 2} |-> 0]
        s2 == [s EXCEPT !.consecutiveDamageRounds = streaks]
    IN  IF s.batteryRamWin # 0
        THEN [s |-> s, result |-> [winner |-> s.batteryRamWin, reason |-> "ram"]]
        ELSE IF diff >= 2
        THEN [s |-> s, result |-> [winner |-> 2, reason |-> "diff"]]
        ELSE IF diff <= -2
        THEN [s |-> s, result |-> [winner |-> 1, reason |-> "diff"]]
        ELSE IF streaks[1] >= 2
        THEN [s |-> s2, result |-> [winner |-> 2, reason |-> "streak"]]
        ELSE IF streaks[2] >= 2
        THEN [s |-> s2, result |-> [winner |-> 1, reason |-> "streak"]]
        ELSE [s |-> s2, result |-> NoWinner]

\* returns the state (the streak counters are updated) and the result
checkWinCondition(s) ==
    LET diff == s.castleDamage[1] - s.castleDamage[2]
        streaks ==
            IF diff = 1
            THEN [s.consecutiveDamageRounds EXCEPT ![1] = @ + 1, ![2] = 0]
            ELSE IF diff = -1
                 THEN [s.consecutiveDamageRounds EXCEPT ![2] = @ + 1, ![1] = 0]
                 ELSE [f \in {1, 2} |-> 0]
        s2 == [s EXCEPT !.consecutiveDamageRounds = streaks]
    IN  IF s.batteryRamWin # 0
        THEN [s |-> s, result |-> [winner |-> s.batteryRamWin, reason |-> "ram"]]
        ELSE IF diff >= 2
        THEN [s |-> s, result |-> [winner |-> 2, reason |-> "diff"]]
        ELSE IF diff <= -2
        THEN [s |-> s, result |-> [winner |-> 1, reason |-> "diff"]]
        ELSE IF streaks[1] >= 2
        THEN [s |-> s2, result |-> [winner |-> 2, reason |-> "streak"]]
        ELSE IF streaks[2] >= 2
        THEN [s |-> s2, result |-> [winner |-> 1, reason |-> "streak"]]
        ELSE [s |-> s2, result |-> NoWinner]

(***************************************************************************)
(* Engaged groups (src/state.js).                                          *)
(***************************************************************************)
RECURSIVE EngagedGroupsFrom(_, _, _, _)
EngagedGroupsFrom(s, k, processedHexes, groups) ==
    IF k > Len(s.units) THEN groups
    ELSE
        LET i == s.units[k]
            hex == <<s.U[i].row, s.U[i].col>>
            faction1Units == getFactionUnitsAt(s, hex[1], hex[2], 1)
            faction2Units == getFactionUnitsAt(s, hex[1], hex[2], 2)
        IN  IF ~isAlive(s.U[i]) \/ hex \in processedHexes
            THEN EngagedGroupsFrom(s, k + 1, processedHexes, groups)
            ELSE IF Len(faction1Units) > 0 /\ Len(faction2Units) > 0
            THEN EngagedGroupsFrom(s, k + 1, processedHexes \cup {hex},
                    Append(groups, [hex |-> hex, faction1 |-> faction1Units,
                                    faction2 |-> faction2Units]))
            ELSE EngagedGroupsFrom(s, k + 1, processedHexes, groups)

getEngagedGroups(s) == EngagedGroupsFrom(s, 1, {}, << >>)

\* every unit dealing the same damage
combatDamageOf_flat(s, i) == 2

combatDamageOf(s, i) == IF s.U[i].type = MILITIA THEN 3 ELSE 2

totalDamage(s, attackers) ==
    SumSeq([k \in DOMAIN attackers |-> combatDamageOf(s, attackers[k])])

\* the remainder going to the last units of the enumeration
evenSplit_last(total, n) ==
    [idx \in 1..n |-> (total \div n) + (IF idx > n - (total % n) THEN 1 ELSE 0)]

\* the fallback split used when no allocation callback is supplied
evenSplit(total, n) ==
    [idx \in 1..n |-> (total \div n) + (IF idx - 1 < total % n THEN 1 ELSE 0)]

\* applies one allocation (a damage amount per enemy, in enumeration order)
RECURSIVE applyAllocation(_, _, _, _)
applyAllocation(s, enemies, amounts, positiveOnly) ==
    IF enemies = << >> THEN s
    ELSE applyAllocation(
            IF positiveOnly /\ ~(Head(amounts) > 0) THEN s
            ELSE applyDamage(s, Head(enemies), Head(amounts)),
            Tail(enemies), Tail(amounts), positiveOnly)

allocateCombatDamage(s, unit1, unit2, damage1to2) ==
    LET damage2to1 == 2 - damage1to2
        s1 == IF damage2to1 > 0 THEN applyDamage(s, unit1, damage2to1) ELSE s
    IN  IF damage1to2 > 0 THEN applyDamage(s1, unit2, damage1to2) ELSE s1

(***************************************************************************)
(* Ability target enumeration and damage (src/state.js).                   *)
(***************************************************************************)
enemiesWhere(s, i, Test(_)) ==
    SelectSeq(s.units, LAMBDA e :
        isAlive(s.U[e]) /\ s.U[e].faction # s.U[i].faction /\ Test(e))

distTo(s, i, e) == hexDistance(s.U[i].row, s.U[i].col, s.U[e].row, s.U[e].col)

getArchersVolleyTargets(s, i) ==
    IF s.U[i].type # ARCHERS THEN << >>
    ELSE enemiesWhere(s, i, LAMBDA e : distTo(s, i, e) > 0 /\ distTo(s, i, e) <= 2)

\* no penalty for having moved
calculateArchersVolleyDamage_still(unit, targetId) ==
    LET d2 == IF unit.lastTarget # NoUnit /\ unit.lastTarget # targetId
              THEN 2 - 1 ELSE 2
    IN  Max2(0, d2)

calculateArchersVolleyDamage(unit, targetId) ==
    LET d1 == IF unit.movedThisTurn THEN 2 - 1 ELSE 2
        d2 == IF unit.lastTarget # NoUnit /\ unit.lastTarget # targetId
              THEN d1 - 1 ELSE d1
    IN  Max2(0, d2)

getCannonMortarTargets(s, i) ==
    IF s.U[i].type # CANNON THEN << >>
    ELSE IF s.U[i].movedThisTurn THEN << >>
    ELSE enemiesWhere(s, i, LAMBDA e : distTo(s, i, e) > 0 /\ distTo(s, i, e) <= 2)

calculateCannonMortarDamage(unit) == IF unit.movedThisTurn THEN 0 ELSE 1

getMusketsFireTargets(s, i) ==
    IF s.U[i].type # MUSKETS THEN << >>
    ELSE IF s.U[i].movedThisTurn THEN << >>
    ELSE enemiesWhere(s, i, LAMBDA e : s.U[e].col = s.U[i].col)

calculateMusketsFireDamage(unit) == IF unit.movedThisTurn THEN 0 ELSE 1

applyMountedChargeBonus(s, i, target, distanceMoved) ==
    IF s.U[i].type # MOUNTED THEN s
    ELSE IF distanceMoved = 2 THEN applyDamage(s, target, 2) ELSE s

getSpearsPierceTargets(s, i) ==
    IF s.U[i].type # SPEARS THEN << >>
    ELSE enemiesWhere(s, i, LAMBDA e : distTo(s, i, e) = 1)

calculateSpearsPierceDamage == 1

\* the Charge damage turned back instead of 3
applySpearCounterCharge_two(s, i, attacker) ==
    IF s.U[i].type # SPEARS THEN s
    ELSE IF s.U[attacker].type # MOUNTED THEN s
    ELSE applyDamage(s, attacker, 2)

applySpearCounterCharge(s, i, attacker) ==
    IF s.U[i].type # SPEARS THEN s
    ELSE IF s.U[attacker].type # MOUNTED THEN s
    ELSE applyDamage(s, attacker, 3)

getJestersTauntTargets(s, i) ==
    IF s.U[i].type # JESTERS THEN << >>
    ELSE enemiesWhere(s, i, LAMBDA e : distTo(s, i, e) = 1)

applyJestersTaunt(s, i, target) ==
    IF s.U[i].type # JESTERS THEN s
    ELSE [s EXCEPT !.U[target].row = s.U[i].row, !.U[target].col = s.U[i].col]

(***************************************************************************)
(* Melee and ranged passes (src/state.js).  Of state.log the model keeps   *)
(* the lines about ability targets (Pierce, Taunt, Volley, Mortar and the  *)
(* rejected target click) written since the last line that announces a     *)
(* selection, a move, a phase or a resolution step; a line records the     *)
(* acting unit, where it stood, the target, where the target stood and the *)
(* damage.                                                                 *)
(***************************************************************************)
\* a line that announces a selection, a move, a phase or a step is written
announce(s) == [s EXCEPT !.log = << >>]

logLine(s, ability, i, target, at, damage) ==
    [s EXCEPT !.log = Append(@,
        [ability |-> ability, unit |-> i, from |-> <<s.U[i].row, s.U[i].col>>,
         target |-> target, at |-> at, damage |-> damage])]

posOf(s, i) == <<s.U[i].row, s.U[i].col>>

\* a selection that counts only while the unit it names is in the live
\* list, so that the default takes its place afterwards
hasSelection_live(s, i) ==
    /\ s.abilityTargeting.isSet /\ i \in DOMAIN s.abilityTargeting.selections
    /\ \E k \in DOMAIN s.units :
            s.units[k] = s.abilityTargeting.selections[i].unitId

hasSelection(s, i) ==
    s.abilityTargeting.isSet /\ i \in DOMAIN s.abilityTargeting.selections

\* state.units.find(u => u.id === id); NoUnit when absent
findUnit(s, id) ==
    IF \E k \in DOMAIN s.units : s.units[k] = id THEN id ELSE NoUnit

\* the last enumerated target taken as the default
firstOrNone_last(q) == IF Len(q) > 0 THEN q[Len(q)] ELSE NoUnit

firstOrNone(q) == IF Len(q) > 0 THEN q[1] ELSE NoUnit

skipsAbility(s, i) ==
    ~isAlive(s.U[i]) \/ isEngaged(s, i) \/ i \in s.unitsInCombatThisTurn

MeleeUnit(s, i) ==
    IF skipsAbility(s, i) THEN s
    ELSE IF s.U[i].type = SPEARS
    THEN LET target ==
                IF hasSelection(s, i)
                THEN findUnit(s, s.abilityTargeting.selections[i].unitId)
                ELSE firstOrNone(getSpearsPierceTargets(s, i))
         IN  IF target # NoUnit /\ isAlive(s.U[target])
             THEN logLine(applyDamage(s, target, calculateSpearsPierceDamage),
                          "Pierce", i, target, posOf(s, target),
                          calculateSpearsPierceDamage)
             ELSE s
    ELSE IF s.U[i].type = JESTERS
    THEN LET target ==
                IF hasSelection(s, i)
                THEN findUnit(s, s.abilityTargeting.selections[i].unitId)
                ELSE firstOrNone(getJestersTauntTargets(s, i))
         IN  IF target # NoUnit /\ isAlive(s.U[target])
             THEN logLine(applyJestersTaunt(s, i, target),
                          "Taunt", i, target, posOf(s, target), 0)
             ELSE s
    ELSE s

RECURSIVE MeleeLoop(_, _, _)
MeleeLoop(s, order, k) ==
    IF k > Len(order) THEN s ELSE MeleeLoop(MeleeUnit(s, order[k]), order, k + 1)

resolveMeleeAbilities(s) ==
    removeDeadUnits(MeleeLoop(announce(s), s.units, 1))

RECURSIVE damageAll(_, _, _)
damageAll(s, targets, damage) ==
    IF targets = << >> THEN s
    ELSE damageAll(applyDamage(s, Head(targets), damage), Tail(targets), damage)

\* the Mortar loop: damage and one log line per enemy on the target hex
RECURSIVE mortarAll(_, _, _, _, _)
mortarAll(s, i, targets, targetHex, damage) ==
    IF targets = << >> THEN s
    ELSE mortarAll(logLine(applyDamage(s, Head(targets), damage),
                           "Mortar", i, Head(targets), targetHex, damage),
                   i, Tail(targets), targetHex, damage)

RangedUnit(s, i) ==
    IF skipsAbility(s, i) THEN s
    ELSE IF s.U[i].type = ARCHERS
    THEN LET targets == getArchersVolleyTargets(s, i)
             target ==
                IF hasSelection(s, i)
                THEN findUnit(s, s.abilityTargeting.selections[i].unitId)
                ELSE IF Len(targets) > 0
                     THEN IF s.U[i].lastTarget # NoUnit
                             /\ \E k \in DOMAIN targets : targets[k] = s.U[i].lastTarget
                          THEN s.U[i].lastTarget
                          ELSE targets[1]
                     ELSE NoUnit
             damage == calculateArchersVolleyDamage(s.U[i], target)
         IN  IF target # NoUnit /\ isAlive(s.U[target]) /\ damage > 0
             THEN [logLine(applyDamage(s, target, damage),
                           "Volley", i, target, posOf(s, target), damage)
                        EXCEPT !.U[i].lastTarget = target]
             ELSE s
    ELSE IF s.U[i].type = CANNON
    THEN LET targets == getCannonMortarTargets(s, i)
             targetHex ==
                IF hasSelection(s, i)
                THEN s.abilityTargeting.selections[i].hex
                ELSE IF Len(targets) > 0
                     THEN <<s.U[targets[1]].row, s.U[targets[1]].col>>
                     ELSE << >>
         IN  IF targetHex = << >> THEN s
             ELSE LET distance ==
                          hexDistance(s.U[i].row, s.U[i].col, targetHex[1], targetHex[2])
                      enemiesInHex == SelectSeq(s.units, LAMBDA e :
                          /\ s.U[e].row = targetHex[1]
                          /\ s.U[e].col = targetHex[2]
                          /\ s.U[e].faction # s.U[i].faction
                          /\ isAlive(s.U[e]))
                  IN  IF distance > 0 /\ distance <= 2
                      THEN mortarAll(s, i, enemiesInHex, targetHex,
                                     calculateCannonMortarDamage(s.U[i]))
                      ELSE s
    ELSE IF s.U[i].type = MUSKETS
    THEN LET targets == getMusketsFireTargets(s, i)
             damage == calculateMusketsFireDamage(s.U[i])
         IN  IF Len(targets) > 0 /\ damage > 0
             THEN damageAll(s, targets, damage)
             ELSE s
    ELSE s

RECURSIVE RangedLoop(_, _, _)
RangedLoop(s, order, k) ==
    IF k > Len(order) THEN s ELSE RangedLoop(RangedUnit(s, order[k]), order, k + 1)

resolveRangedAbilities(s) ==
    removeDeadUnits(RangedLoop(announce(s), s.units, 1))

(***************************************************************************)
(* Legal moves (src/game.js).                                              *)
(***************************************************************************)
maxMovement == 1

RECURSIVE bfsMoves(_, _, _, _, _)
bfsMoves(s, faction, frontier, visited, distance) ==
    IF frontier = {} \/ distance > maxMovement THEN {}
    ELSE
        LET here ==
                IF distance > 0
                THEN {h \in frontier :
                        Len(getFactionUnitsAt(s, h[1], h[2], faction)) < 2}
                ELSE {}
            visited2 == visited \cup frontier
            next ==
                IF distance < maxMovement
                THEN UNION {Range(getAdjacentHexes(h[1], h[2])) : h \in frontier}
                        \ visited2
                ELSE {}
        IN  here \cup bfsMoves(s, faction, next, visited2, distance + 1)

\* the hexes next to a ground unit without the count of its own side
getValidMoves_crowded(s, i) ==
    LET unit == s.U[i]
    IN  IF isEngaged(s, i) /\ unit.type # ASSAULT_BEASTS THEN {}
        ELSE Range(getAdjacentHexes(unit.row, unit.col))
                \cup {<<unit.row, unit.col>>}

\* an Aerial that may land in the castle row of the enemy
getValidMoves_castle(s, i) ==
    LET unit == s.U[i]
    IN  IF isEngaged(s, i) /\ unit.type # ASSAULT_BEASTS THEN {}
        ELSE {h \in (0..(BoardSize - 1)) \X (0..(BoardSize - 1)) :
                /\ ~(h[1] = unit.row /\ h[2] = unit.col)
                /\ Len(getUnitsAt(s, h[1], h[2])) = 0}

getValidMoves(s, i) ==
    LET unit == s.U[i]
    IN  IF isEngaged(s, i) /\ unit.type # ASSAULT_BEASTS THEN {}
        ELSE IF unit.type = COMMANDER
        THEN {<<s.U[f].row, s.U[f].col>> : f \in
                {f \in Range(s.units) :
                    /\ f # i
                    /\ s.U[f].faction = unit.faction
                    /\ ~(s.U[f].damage >= s.U[f].maxHp)
                    /\ hexDistance(unit.row, unit.col, s.U[f].row, s.U[f].col) > 0
                    /\ hexDistance(unit.row, unit.col, s.U[f].row, s.U[f].col) <= 2}}
        ELSE IF unit.type = AERIAL
        THEN LET enemyCastleRow == IF unit.faction = 1 THEN 0 ELSE 5
             IN  {h \in (0..(BoardSize - 1)) \X (0..(BoardSize - 1)) :
                    /\ ~(h[1] = unit.row /\ h[2] = unit.col)
                    /\ h[1] # enemyCastleRow
                    /\ Len(getUnitsAt(s, h[1], h[2])) = 0}
        ELSE bfsMoves(s, unit.faction, {<<unit.row, unit.col>>}, {}, 0)
                \cup {<<unit.row, unit.col>>}

(***************************************************************************)
(* The controller works on a "world": the state object plus the DOM parts. *)
(***************************************************************************)
ClosedPicker ==
    [open |-> FALSE, kind |-> "none", options |-> << >>, src |-> NoUnit]

NoCont == [groups |-> << >>, gi |-> 0, side |-> 0, done |-> << >>]

ClosedModal ==
    [open |-> FALSE, enemies |-> << >>, total |-> 0, attacker |-> 0,
     allocation |-> << >>, remaining |-> 0, cont |-> NoCont]

World ==
    [st |-> state, picker |-> unitPicker, modal |-> damageModal,
     timers |-> timers, btn |-> btnDisabled, h |-> hist]

showUnitPickerModal(w, kind, options, src) ==
    [w EXCEPT !.picker =
        [open |-> TRUE, kind |-> kind, options |-> options, src |-> src]]

\* units of the targeting session of `player` that have no selection yet
unitsNeedingTargets(s, player) ==
    SelectSeq(s.abilityTargeting.unitsToTarget, LAMBDA i :
        s.U[i].faction = player /\ ~(i \in DOMAIN s.abilityTargeting.selections))

\* the part of updateUI that matters for control: the End-Phase button
updateUI(w) ==
    LET s == w.st
    IN  [w EXCEPT !.btn =
            IF s.phase \in {RESOLUTION_COMBAT, RESOLUTION_MELEE,
                            RESOLUTION_RANGED, RESOLUTION_CASTLE}
            THEN TRUE
            ELSE IF s.phase = ABILITY_TARGETING /\ s.abilityTargeting.isSet
            THEN Len(unitsNeedingTargets(s, s.abilityTargeting.currentPlayer)) > 0
            ELSE FALSE]

\* a pending callback: rem = milliseconds left until it is due
\* done and fought describe the resolution pass that the callback resumes:
\* the steps it has run and the units of the groups of its combat step
setTimeout(w, kind, ms, pc, done, fought) ==
    [w EXCEPT !.timers =
        Append(@, [kind |-> kind, rem |-> ms, pc |-> pc, done |-> done,
                   fought |-> fought])]

(***************************************************************************)
(* moveUnit (src/game.js).                                                 *)
(***************************************************************************)
RECURSIVE counterChargingSpears(_, _, _)
counterChargingSpears(s, adjacentHexes, enemyFaction) ==
    IF adjacentHexes = << >> THEN << >>
    ELSE
        LET adjHex == Head(adjacentHexes)
            unitsAtHex == getFactionUnitsAt(s, adjHex[1], adjHex[2], enemyFaction)
        IN  SelectSeq(unitsAtHex, LAMBDA u :
                /\ s.U[u].type = SPEARS
                /\ s.U[u].damage < s.U[u].maxHp
                /\ ~isEngaged(s, u))
            \o counterChargingSpears(s, Tail(adjacentHexes), enemyFaction)

moveUnit(w, i, newRow, newCol) ==
    LET s == w.st
        distanceMoved == hexDistance(s.U[i].row, s.U[i].col, newRow, newCol)
        isMountedSecondMove == s.U[i].type = MOUNTED /\ s.U[i].movedThisTurn
        s1 == [announce(s) EXCEPT !.U[i].row = newRow, !.U[i].col = newCol,
                                  !.U[i].movedThisTurn = TRUE]
        s2 == IF s.U[i].type = MOUNTED /\ ~isMountedSecondMove
              THEN [s1 EXCEPT !.pendingSecondMove = i]
              ELSE [s1 EXCEPT !.activatedUnits = @ \cup {i},
                              !.pendingSecondMove = NoUnit]
        enemyFaction == Other(s.U[i].faction)
        enemiesAtHex == getFactionUnitsAt(s2, newRow, newCol, enemyFaction)
        spears == counterChargingSpears(s2, getAdjacentHexes(newRow, newCol),
                                        enemyFaction)
        w2 == [w EXCEPT !.st = s2, !.h.moves = @ + 1,
                        !.h.firstStep =
                            IF s.U[i].type = MOUNTED /\ ~isMountedSecondMove
                            THEN distanceMoved ELSE 0]
    IN  IF Len(enemiesAtHex) > 0 /\ isMountedSecondMove
        THEN IF Len(spears) > 0
             THEN updateUI([w2 EXCEPT !.st = applySpearCounterCharge(s2, spears[1], i)])
             ELSE IF Len(enemiesAtHex) > 1
             THEN showUnitPickerModal(w2, "charge", enemiesAtHex, i)
             ELSE updateUI([w2 EXCEPT !.st =
                        applyMountedChargeBonus(s2, i, enemiesAtHex[1], 2)])
        ELSE updateUI(w2)

(***************************************************************************)
(* handleClick during the faction phases (src/game.js).                    *)
(***************************************************************************)
selectFor(w, i) ==
    [w EXCEPT !.st.selectedUnit = i, !.st.validMoves = getValidMoves(w.st, i)]

handleMoveClick(w, hex) ==
    LET s == w.st
        currentFaction == IF s.phase = FACTION_1 THEN 1 ELSE 2
        validMove == hex \in s.validMoves
    IN  IF s.selectedUnit # NoUnit
        THEN IF s.U[s.selectedUnit].type = COMMANDER /\ s.commanderTarget = NoUnit
             THEN IF validMove
                  THEN LET friendlyUnits ==
                               SelectSeq(getFactionUnitsAt(s, hex[1], hex[2], currentFaction),
                                   LAMBDA u : u # s.selectedUnit
                                              /\ s.U[u].damage < s.U[u].maxHp)
                       IN  IF Len(friendlyUnits) > 1
                           THEN showUnitPickerModal(w, "commander", friendlyUnits, NoUnit)
                           ELSE IF Len(friendlyUnits) = 1
                           THEN [w EXCEPT !.st.commanderTarget = friendlyUnits[1],
                                          !.st.validMoves = getValidMoves(s, friendlyUnits[1])]
                           ELSE w
                  ELSE [w EXCEPT !.st.selectedUnit = NoUnit, !.st.validMoves = {}]
             ELSE IF s.U[s.selectedUnit].type = COMMANDER /\ s.commanderTarget # NoUnit
             THEN IF validMove
                  THEN LET w2 == moveUnit(w, s.commanderTarget, hex[1], hex[2])
                       IN  [w2 EXCEPT !.st.activatedUnits = @ \cup {s.selectedUnit},
                                      !.st.selectedUnit = NoUnit,
                                      !.st.commanderTarget = NoUnit,
                                      !.st.validMoves = {}]
                  ELSE [w EXCEPT !.st.commanderTarget = NoUnit,
                                 !.st.validMoves = getValidMoves(s, s.selectedUnit)]
             ELSE IF validMove
                  THEN LET movedUnit == s.selectedUnit
                           w2 == moveUnit(w, movedUnit, hex[1], hex[2])
                       IN  IF w2.st.pendingSecondMove = movedUnit
                           THEN selectFor(w2, movedUnit)
                           ELSE [w2 EXCEPT !.st.selectedUnit = NoUnit,
                                           !.st.validMoves = {}]
                  ELSE LET s2 == IF s.pendingSecondMove # NoUnit
                                 THEN [s EXCEPT !.activatedUnits = @ \cup {s.pendingSecondMove},
                                                !.pendingSecondMove = NoUnit]
                                 ELSE s
                       IN  [w EXCEPT !.st = [s2 EXCEPT !.selectedUnit = NoUnit,
                                                       !.validMoves = {}]]
        ELSE LET units == getFactionUnitsAt(s, hex[1], hex[2], currentFaction)
                 unactivated == SelectSeq(units, LAMBDA u : ~(u \in s.activatedUnits))
             IN  IF s.pendingSecondMove # NoUnit
                 THEN IF \E k \in DOMAIN units : units[k] = s.pendingSecondMove
                      THEN selectFor(w, s.pendingSecondMove)
                      ELSE w
                 ELSE IF Len(unactivated) > 1
                 THEN showUnitPickerModal(w, "select", unactivated, NoUnit)
                 ELSE IF Len(unactivated) = 1
                 THEN selectFor(w, unactivated[1])
                 ELSE w

(***************************************************************************)
(* Ability targeting (src/game.js).                                        *)
(***************************************************************************)
needsTarget(s, i) ==
    /\ ~(s.U[i].damage >= s.U[i].maxHp)
    /\ ~isEngaged(s, i)
    /\ \/ s.U[i].type = SPEARS /\ Len(getSpearsPierceTargets(s, i)) > 0
       \/ s.U[i].type = ARCHERS /\ Len(getArchersVolleyTargets(s, i)) > 0
       \/ /\ s.U[i].type = CANNON
          /\ ~s.U[i].movedThisTurn
          /\ Len(getCannonMortarTargets(s, i)) > 0

getUnitsNeedingAbilityTargets(s) ==
    SelectSeq(s.units, LAMBDA i : needsTarget(s, i))

unitSelection(id) == [unitId |-> id, hex |-> << >>]

hexSelection(hex) == [unitId |-> NoUnit, hex |-> hex]

setSelection(s, i, sel) ==
    [s EXCEPT !.abilityTargeting.selections =
        [j \in DOMAIN @ \cup {i} |-> IF j = i THEN sel ELSE @[j]]]

\* a rejected click that skips the prompted unit
rejectClick_skip(w, sourceUnit, hex) ==
    [w EXCEPT !.st = setSelection(
        logLine(w.st, "none", sourceUnit, NoUnit, hex, 0),
        sourceUnit, unitSelection(NoUnit))]

\* the click holds no valid target: only the "No valid targets" line
rejectClick(w, sourceUnit, hex) ==
    [w EXCEPT !.st = logLine(w.st, "none", sourceUnit, NoUnit, hex, 0)]

handleAbilityTargetingClick(w, hex) ==
    LET s == w.st
        at == s.abilityTargeting
        needing == unitsNeedingTargets(s, at.currentPlayer)
    IN  IF ~at.isSet \/ ~at.active THEN w
        ELSE IF Len(needing) = 0 THEN w
        ELSE
            LET sourceUnit == needing[1]
                type == s.U[sourceUnit].type
                validTargets ==
                    IF type = SPEARS THEN getSpearsPierceTargets(s, sourceUnit)
                    ELSE IF type = ARCHERS THEN getArchersVolleyTargets(s, sourceUnit)
                    ELSE IF type = JESTERS THEN getJestersTauntTargets(s, sourceUnit)
                    ELSE IF type = CANNON THEN getCannonMortarTargets(s, sourceUnit)
                    ELSE << >>
                atHex == SelectSeq(validTargets, LAMBDA u :
                            s.U[u].row = hex[1] /\ s.U[u].col = hex[2])
            IN  IF type \in {SPEARS, ARCHERS, JESTERS} /\ Len(atHex) > 1
                THEN showUnitPickerModal(w, "target", atHex, sourceUnit)
                ELSE IF Len(atHex) >= 1
                THEN updateUI(setTimeout(
                        [w EXCEPT !.st = announce(setSelection(s, sourceUnit,
                            IF type = CANNON THEN hexSelection(hex)
                            ELSE unitSelection(atHex[1])))],
                        "endPhase", EndPhaseDelay, "none", << >>, {}))
                ELSE updateUI(rejectClick(w, sourceUnit, hex))

(***************************************************************************)
(* executeResolutionSequence and endPhase (src/game.js).                   *)
(***************************************************************************)
\* some unit that was asked for a target has not been given one
targetingOpen(s) ==
    /\ s.abilityTargeting.isSet
    /\ Len(unitsNeedingTargets(s, 1)) + Len(unitsNeedingTargets(s, 2)) > 0

\* the synchronous head of executeResolutionSequence, up to its first await
executeResolutionSequence(w) ==
    LET s == w.st
        s1 == [s EXCEPT !.unitsInCombatThisTurn = {},
                        !.abilityTargeting.active =
                            IF s.abilityTargeting.isSet THEN FALSE ELSE @]
    IN  setTimeout([w EXCEPT !.st = s1,
                             !.h.started = @ + 1,
                             !.h.open = @ + 1,
                             !.h.early = @ \/ targetingOpen(s)],
                   "res", CombatDelay, "combat", << >>, {})

startResolution(w) ==
    executeResolutionSequence([w EXCEPT !.st.phase = RESOLUTION_COMBAT])

endPhase(w) ==
    LET s == [w.st EXCEPT !.pendingSecondMove = NoUnit]
        w1 == [w EXCEPT !.st = s]
    IN  IF s.phase = FACTION_1
        THEN updateUI([w1 EXCEPT !.st.phase = FACTION_2,
                                 !.st.log = << >>,
                                 !.st.activatedUnits = {},
                                 !.st.selectedUnit = NoUnit,
                                 !.st.validMoves = {}])
        ELSE IF s.phase = FACTION_2
        THEN LET unitsNeedingTargeting == getUnitsNeedingAbilityTargets(s)
                 p2HasAbilities ==
                    \E k \in DOMAIN unitsNeedingTargeting :
                        s.U[unitsNeedingTargeting[k]].faction = 2
                 p1HasAbilities ==
                    \E k \in DOMAIN unitsNeedingTargeting :
                        s.U[unitsNeedingTargeting[k]].faction = 1
                 startingPlayer ==
                    IF ~p2HasAbilities /\ p1HasAbilities THEN 1 ELSE 2
             IN  IF Len(unitsNeedingTargeting) > 0
                 THEN updateUI([w1 EXCEPT
                        !.h.session = s.round,
                        !.st.phase = ABILITY_TARGETING,
                        !.st.abilityTargeting =
                            [isSet |-> TRUE, active |-> TRUE,
                             currentPlayer |-> startingPlayer,
                             selections |-> << >>,
                             unitsToTarget |-> unitsNeedingTargeting]])
                 ELSE startResolution(w1)
        ELSE IF s.phase = ABILITY_TARGETING
        THEN LET currentPlayer == s.abilityTargeting.currentPlayer
             IN  IF Len(unitsNeedingTargets(s, currentPlayer)) > 0
                 THEN [w1 EXCEPT !.st.log = << >>]
                 ELSE IF currentPlayer = 2
                 THEN IF Len(unitsNeedingTargets(s, 1)) > 0
                      THEN [w1 EXCEPT !.st.abilityTargeting.currentPlayer = 1,
                                      !.st.log = << >>]
                      ELSE setTimeout(w1, "startRes", NoAbilitiesDelay, "none", << >>, {})
                 ELSE startResolution(w1)
        ELSE updateUI([w1 EXCEPT !.st.selectedUnit = NoUnit,
                                 !.st.validMoves = {}])

(***************************************************************************)
(* resolveCombatAsync (src/state.js), suspended at each allocation        *)
(* request, and the steps of executeResolutionSequence that follow it.     *)
(***************************************************************************)
markGroup(s, g) ==
    [s EXCEPT !.unitsInCombatThisTurn = @ \cup Range(g.faction1) \cup Range(g.faction2)]

nextGi(gi, side) == IF side = 1 THEN gi ELSE gi + 1

nextSide(side) == IF side = 1 THEN 2 ELSE 1

\* runs the loop over the groups from (gi, side) until it ends or until an
\* allocation is requested; hasModal = an allocation callback was supplied
RECURSIVE CombatFrom(_, _, _, _, _)
CombatFrom(s, groups, gi, side, hasModal) ==
    IF gi > Len(groups)
    THEN [s |-> removeDeadUnits(s), wait |-> FALSE, gi |-> gi, side |-> side]
    ELSE
        LET g == groups[gi]
            s1 == IF side = 1 THEN markGroup(s, g) ELSE s
            attackers == IF side = 1 THEN g.faction1 ELSE g.faction2
            defenders == IF side = 1 THEN g.faction2 ELSE g.faction1
            total == totalDamage(s1, attackers)
        IN  IF Len(defenders) = 1
            THEN CombatFrom(applyDamage(s1, defenders[1], total), groups,
                            nextGi(gi, side), nextSide(side), hasModal)
            ELSE IF hasModal
            THEN [s |-> s1, wait |-> TRUE, gi |-> gi, side |-> side]
            ELSE CombatFrom(
                    applyAllocation(s1, defenders,
                                    evenSplit(total, Len(defenders)), FALSE),
                    groups, nextGi(gi, side), nextSide(side), hasModal)

showDamageAllocationModal(w, groups, gi, side, done) ==
    LET g == groups[gi]
        enemies == IF side = 1 THEN g.faction2 ELSE g.faction1
        attackers == IF side = 1 THEN g.faction1 ELSE g.faction2
        total == totalDamage(w.st, attackers)
    IN  [w EXCEPT !.modal =
            [open |-> TRUE, enemies |-> enemies, total |-> total,
             attacker |-> side,
             allocation |-> [k \in DOMAIN enemies |-> 0],
             remaining |-> total,
             cont |-> [groups |-> groups, gi |-> gi, side |-> side,
                       done |-> done]]]

\* what follows the combat loop: either the loop waits on the modal, or
\* executeResolutionSequence goes on to its next delay
afterCombat(w, r, groups, done) ==
    IF r.wait
    THEN showDamageAllocationModal([w EXCEPT !.st = r.s], groups, r.gi, r.side, done)
    ELSE setTimeout(updateUI([w EXCEPT !.st = r.s]),
                    "res", MeleeDelay, "melee", Append(done, "combat"),
                    UNION {Range(groups[g].faction1) \cup Range(groups[g].faction2) :
                            g \in DOMAIN groups})

resolveCombatAsync(w0, done) ==
    LET w == [w0 EXCEPT !.st = announce(w0.st)]
        groups == getEngagedGroups(w.st)
    IN  IF Len(groups) = 0
        THEN setTimeout(updateUI(w), "res", MeleeDelay, "melee",
                        Append(done, "combat"), {})
        ELSE afterCombat(w, CombatFrom(w.st, groups, 1, 1, TRUE), groups, done)

\* the end of executeResolutionSequence
\* the next round started with the moved flags and remembered targets kept
finishResolution_keep(w, done) ==
    LET r == checkWinCondition(w.st)
        s == announce(r.s)
        diff == w.st.castleDamage[1] - w.st.castleDamage[2]
        w1 == [w EXCEPT !.h.winResult = r.result,
                        !.h.lastDone = Append(done, "win"),
                        !.h.prevDiff = diff,
                        !.h.open = @ - 1]
    IN  IF r.result.winner # 0
        THEN updateUI([w1 EXCEPT !.st = [s EXCEPT !.phase = GAME_OVER]])
        ELSE updateUI([w1 EXCEPT
                !.h.started = 0,
                !.st = [s EXCEPT
                    !.phase = FACTION_1,
                    !.activatedUnits = {},
                    !.round = @ + 1,
                    !.pendingSecondMove = NoUnit]])

finishResolution(w, done) ==
    LET r == checkWinCondition(w.st)
        s == announce(r.s)
        diff == w.st.castleDamage[1] - w.st.castleDamage[2]
        w1 == [w EXCEPT !.h.winResult = r.result,
                        !.h.lastDone = Append(done, "win"),
                        !.h.prevDiff = diff,
                        !.h.open = @ - 1]
    IN  IF r.result.winner # 0
        THEN updateUI([w1 EXCEPT !.st = [s EXCEPT !.phase = GAME_OVER]])
        ELSE updateUI([w1 EXCEPT
                !.h.started = 0,
                !.st = [s EXCEPT
                    !.phase = FACTION_1,
                    !.activatedUnits = {},
                    !.round = @ + 1,
                    !.U = [i \in DOMAIN s.U |->
                            IF i \in Range(s.units)
                            THEN [s.U[i] EXCEPT !.movedThisTurn = FALSE,
                                                !.lastTarget = NoUnit]
                            ELSE s.U[i]],
                    !.pendingSecondMove = NoUnit]])

\* the castle step does not go on to the win evaluation
resolutionStep_stall(w, pc, done, fought) ==
    IF pc = "combat" THEN resolveCombatAsync(w, done)
    ELSE IF pc = "melee"
    THEN setTimeout(updateUI([w EXCEPT !.st = resolveMeleeAbilities(w.st)]),
                    "res", RangedDelay, "ranged", Append(done, "melee"), fought)
    ELSE IF pc = "ranged"
    THEN setTimeout(updateUI([w EXCEPT !.st = resolveRangedAbilities(w.st)]),
                    "res", CastleDelay, "castle", Append(done, "ranged"), fought)
    ELSE IF pc = "castle"
    THEN updateUI([w EXCEPT !.st = calculateCastleDamage(w.st)])
    ELSE finishResolution(w, done)

\* the step of executeResolutionSequence that a fired delay resumes
resolutionStep(w, pc, done, fought) ==
    IF pc = "combat" THEN resolveCombatAsync(w, done)
    ELSE IF pc = "melee"
    THEN setTimeout(updateUI([w EXCEPT !.st = resolveMeleeAbilities(w.st)]),
                    "res", RangedDelay, "ranged", Append(done, "melee"), fought)
    ELSE IF pc = "ranged"
    THEN setTimeout(updateUI([w EXCEPT !.st = resolveRangedAbilities(w.st)]),
                    "res", CastleDelay, "castle", Append(done, "ranged"), fought)
    ELSE IF pc = "castle"
    THEN setTimeout(updateUI([w EXCEPT !.st = calculateCastleDamage(w.st)]),
                    "res", WinDelay, "win", Append(done, "castle"), fought)
    ELSE finishResolution(w, done)

(***************************************************************************)
(* Positions the exploration starts from.  Each is a position of a draft   *)
(* game (any types, duplicates allowed) at the start of a Player 1 phase,  *)
(* after the other units were destroyed; castle damage, streak counters    *)
(* and the last evaluated difference agree with the units standing in the  *)
(* castle rows.                                                            *)
(***************************************************************************)
ScenarioA ==
    [units |-> << createUnit(COMMANDER, 1, 2, 3),
                  createUnit(MILITIA, 1, 1, 2),
                  createUnit(MILITIA, 1, 1, 2),
                  createUnit(BATTERY_RAM, 1, 1, 3) >>,
     castleDamage |-> <<0, 0>>, streak |-> <<0, 0>>, prevDiff |-> 0]

ScenarioD ==
    [units |-> << createUnit(MILITIA, 1, 1, 2),
                  createUnit(MILITIA, 1, 1, 2),
                  createUnit(ARCHERS, 2, 0, 2) >>,
     castleDamage |-> <<0, 0>>, streak |-> <<0, 0>>, prevDiff |-> 0]

ScenarioB ==
    [units |-> << createUnit(BATTERY_RAM, 2, 4, 2),
                  createUnit(MILITIA, 2, 4, 3),
                  createUnit(SPEARS, 1, 5, 3),
                  createUnit(MILITIA, 1, 0, 2) >>,
     castleDamage |-> <<0, 1>>, streak |-> <<0, 1>>, prevDiff |-> -1]

ScenarioC ==
    [units |-> << createUnit(MILITIA, 2, 5, 2),
                  createUnit(BATTERY_RAM, 2, 4, 2),
                  createUnit(SPEARS, 1, 5, 3),
                  createUnit(MILITIA, 1, 1, 2) >>,
     castleDamage |-> <<1, 0>>, streak |-> <<1, 0>>, prevDiff |-> 1]

\* a unit that took damage in earlier rounds
wounded(unit, damage) == [unit EXCEPT !.damage = damage]

\* an engagement that has lasted one round: the Militia took 2 + 2, the
\* Spears shared its 3; the Archers have just come into range
ScenarioE ==
    [units |-> << wounded(createUnit(MILITIA, 1, 1, 2), 4),
                  wounded(createUnit(SPEARS, 2, 1, 2), 2),
                  wounded(createUnit(SPEARS, 2, 1, 2), 1),
                  createUnit(ARCHERS, 2, 0, 2) >>,
     castleDamage |-> <<0, 0>>, streak |-> <<0, 0>>, prevDiff |-> 0]

\* two Spears of Player 1 hold the enemy castle row against a Spears that
\* survived one round of combat with 4 damage; a Militia of Player 2
\* reached the other castle row in the round before
ScenarioF ==
    [units |-> << wounded(createUnit(SPEARS, 1, 0, 2), 1),
                  wounded(createUnit(SPEARS, 1, 0, 2), 1),
                  wounded(createUnit(SPEARS, 2, 0, 2), 4),
                  createUnit(MILITIA, 1, 1, 2),
                  createUnit(MILITIA, 2, 5, 2) >>,
     castleDamage |-> <<1, 0>>, streak |-> <<1, 0>>, prevDiff |-> 1]

\* a Mounted within two moves of a Militia that a Spears stands next to
ScenarioG ==
    [units |-> << createUnit(MOUNTED, 1, 1, 3),
                  createUnit(MILITIA, 2, 0, 3),
                  createUnit(SPEARS, 2, 0, 2) >>,
     castleDamage |-> <<0, 0>>, streak |-> <<0, 0>>, prevDiff |-> 0]

\* a Mounted next to a Spears and to a Militia that the Spears stands next to
ScenarioM ==
    [units |-> << createUnit(MOUNTED, 1, 1, 2),
                  createUnit(MILITIA, 2, 0, 3),
                  createUnit(SPEARS, 2, 0, 2) >>,
     castleDamage |-> <<0, 0>>, streak |-> <<0, 0>>, prevDiff |-> 0]

\* a Commander behind a Mounted and a Militia of Player 1; a Militia of
\* Player 2 in front of the Mounted
ScenarioN ==
    [units |-> << createUnit(COMMANDER, 1, 2, 3),
                  createUnit(MOUNTED, 1, 1, 3),
                  createUnit(MILITIA, 1, 1, 2),
                  createUnit(MILITIA, 2, 0, 3) >>,
     castleDamage |-> <<0, 0>>, streak |-> <<0, 0>>, prevDiff |-> 0]

\* a Mounted two moves away from a Militia that is left with 2 hit points
ScenarioP ==
    [units |-> << createUnit(MOUNTED, 1, 1, 3),
                  wounded(createUnit(MILITIA, 2, 0, 3), 3) >>,
     castleDamage |-> <<0, 0>>, streak |-> <<0, 0>>, prevDiff |-> 0]

\* a Jesters and a wounded Battery Ram of Player 1 share a hex with the
\* Assault Beasts that the Jesters taunted onto it in the melee step of the
\* round before; Archers of Player 2 stand next to them
ScenarioH ==
    [units |-> << createUnit(JESTERS, 1, 1, 2),
                  wounded(createUnit(BATTERY_RAM, 1, 1, 2), 3),
                  createUnit(ASSAULT_BEASTS, 2, 1, 2),
                  createUnit(ARCHERS, 2, 1, 1) >>,
     castleDamage |-> <<0, 0>>, streak |-> <<0, 0>>, prevDiff |-> 0]

\* a Jesters of Player 1 engaged with a Militia that is left with 1 hit
\* point, a second Militia next to the Jesters, and Archers of Player 1 that
\* have the Jesters' hex in reach but not the second Militia
ScenarioQ ==
    [units |-> << createUnit(JESTERS, 1, 2, 3),
                  createUnit(ARCHERS, 1, 3, 5),
                  wounded(createUnit(MILITIA, 2, 2, 3), 4),
                  createUnit(MILITIA, 2, 1, 3) >>,
     castleDamage |-> <<0, 0>>, streak |-> <<0, 0>>, prevDiff |-> 0]

\* Jesters of both players and a Spears next to each other, nobody engaged
ScenarioK ==
    [units |-> << createUnit(JESTERS, 1, 2, 3),
                  createUnit(SPEARS, 1, 1, 2),
                  createUnit(JESTERS, 2, 1, 3),
                  createUnit(MILITIA, 2, 3, 3) >>,
     castleDamage |-> <<0, 0>>, streak |-> <<0, 0>>, prevDiff |-> 0]

\* a Jesters of Player 1 next to two Militia of Player 2; a Spears, Archers
\* and a Cannon of Player 1 that have the Jesters' hex in reach but neither
\* Militia, so that nobody is asked for a target
ScenarioL ==
    [units |-> << createUnit(JESTERS, 1, 2, 3),
                  createUnit(SPEARS, 1, 3, 3),
                  createUnit(ARCHERS, 1, 3, 5),
                  createUnit(CANNON, 1, 4, 3),
                  createUnit(MILITIA, 2, 1, 3),
                  createUnit(MILITIA, 2, 2, 2) >>,
     castleDamage |-> <<0, 0>>, streak |-> <<0, 0>>, prevDiff |-> 0]

\* a Battery Ram of each player, each one step from the enemy castle row
ScenarioR ==
    [units |-> << createUnit(BATTERY_RAM, 1, 1, 3),
                  createUnit(BATTERY_RAM, 2, 4, 2) >>,
     castleDamage |-> <<0, 0>>, streak |-> <<0, 0>>, prevDiff |-> 0]

Scenarios ==
    {ScenarioA, ScenarioB, ScenarioC, ScenarioD, ScenarioE, ScenarioF,
     ScenarioK, ScenarioR}

\* the position with the most freedom of movement, explored for one round
ShortScenarios == {ScenarioD, ScenarioR}

\* the positions that are explored for one round more than the others,
\* and without movement input
LongScenarios == {ScenarioH, ScenarioL, ScenarioQ}

\* the positions in which rejected target clicks are explored
RejectScenarios == {ScenarioK}

\* the positions in which the exported rules-engine entry points that the
\* controller never calls are exercised as well, for one round
ApiScenarios == {ScenarioE, ScenarioG, ScenarioM, ScenarioN, ScenarioP}

\* unit identities of the explored positions
UnitIds == 1..5

\* damage1to2 arguments tried for allocateCombatDamage
ApiDamages == {-1, 0, 1, 2, 3}

\* how long (ms) a player waits before an input while timers are pending
UserDelays == {0, 1200}

\* the hexes the players click on
ClickHexes ==
    {<<0, 2>>, <<0, 3>>, <<1, 2>>, <<1, 3>>, <<2, 3>>,
     <<4, 2>>, <<4, 3>>, <<5, 2>>, <<5, 3>>}

InitState(sc) ==
    [createGameState EXCEPT
        !.phase = FACTION_1,
        !.round = StartRound,
        !.U = sc.units,
        !.units = [k \in DOMAIN sc.units |-> k],
        !.castleDamage = [f \in {1, 2} |-> sc.castleDamage[f]],
        !.consecutiveDamageRounds = [f \in {1, 2} |-> sc.streak[f]]]

\* rounds = the number of rounds that are explored from the position
InitHist(sc, rounds) ==
    [moves |-> 0, api |-> {}, started |-> 0, open |-> 0, early |-> FALSE,
     winResult |-> NoWinner, lastDone |-> << >>, prevDiff |-> sc.prevDiff,
     lastAlloc |-> << >>, firstStep |-> 0, session |-> 0,
     rejects |-> IF sc \in RejectScenarios THEN MaxRejects ELSE 0,
     lastRound |-> StartRound + rounds - 1]

InitFrom(sc, rounds) ==
    /\ state = InitState(sc)
    /\ unitPicker = ClosedPicker
    /\ damageModal = ClosedModal
    /\ timers = << >>
    /\ btnDisabled = FALSE
    /\ hist = InitHist(sc, rounds)
    /\ unitTypeCounters = countersAfter(sc.units)

Init ==
    \E sc \in Scenarios :
        InitFrom(sc, IF sc \in ShortScenarios THEN 1 ELSE MaxRound)

InitApi == \E sc \in ApiScenarios : InitFrom(sc, 1)

InitLong == \E sc \in LongScenarios : InitFrom(sc, MaxRound + 1)

(***************************************************************************)
(* Actions: one per input event or callback.                               *)
(***************************************************************************)
Become(w) ==
    /\ state' = w.st
    /\ unitPicker' = w.picker
    /\ damageModal' = w.modal
    /\ timers' = w.timers
    /\ btnDisabled' = w.btn
    /\ hist' = w.h
    /\ unitTypeCounters' = unitTypeCounters

\* the timer that is due first runs first; timers due at the same time run
\* in the order in which they were started
canFire(k) ==
    /\ k \in DOMAIN timers
    /\ \A j \in DOMAIN timers :
            \/ j = k
            \/ timers[j].rem > timers[k].rem
            \/ timers[j].rem = timers[k].rem /\ j > k

elapse(q, ms) == [j \in DOMAIN q |-> [q[j] EXCEPT !.rem = @ - ms]]

removeAt(q, k) == [j \in 1..(Len(q) - 1) |-> IF j < k THEN q[j] ELSE q[j + 1]]

\* the pending timers at the moment timer k runs
afterFire(k) == removeAt(elapse(timers, timers[k].rem), k)

\* the world at an input that the player makes ms after the last event
\* and before the next timer is due
canWait(ms) ==
    IF timers = << >> THEN ms = 0
    ELSE \A j \in DOMAIN timers : ms < timers[j].rem

WorldAfter(ms) == [World EXCEPT !.timers = elapse(timers, ms)]

modalOpen == unitPicker.open \/ damageModal.open

inFactionPhase == state.phase \in {FACTION_1, FACTION_2}

\* the exploration stops taking movement-phase input after MaxRound rounds
roundOpen == inFactionPhase => state.round <= hist.lastRound

\* canvas click in a faction phase: handleClick
ClickMove(hex) ==
    /\ ~modalOpen
    /\ inFactionPhase
    /\ roundOpen
    /\ hist.moves < MaxMoves
    /\ Become(handleMoveClick(World, hex))

\* canvas click in the targeting phase: handleClick -> handleAbilityTargetingClick
ClickTarget(hex, ms) ==
    /\ ~modalOpen
    /\ state.phase = ABILITY_TARGETING
    /\ Len(timers) < MaxTimers
    /\ canWait(ms)
    /\ LET w == handleAbilityTargetingClick(WorldAfter(ms), hex)
       IN  /\ Len(SelectSeq(w.st.log, LAMBDA line : line.ability = "none"))
                <= hist.rejects
           /\ Become(w)

\* click on an option of the unit picker modal
PickUnit(k, ms) ==
    /\ unitPicker.open
    /\ k \in DOMAIN unitPicker.options
    /\ canWait(ms)
    /\ LET w == [WorldAfter(ms) EXCEPT !.picker = ClosedPicker]
           s == state
           selected == unitPicker.options[k]
       IN  IF unitPicker.kind = "commander"
           THEN Become([w EXCEPT !.st.commanderTarget = selected,
                                 !.st.validMoves = getValidMoves(s, selected)])
           ELSE IF unitPicker.kind = "select"
           THEN Become(selectFor(w, selected))
           ELSE IF unitPicker.kind = "charge"
           THEN Become(updateUI([w EXCEPT !.st =
                    applyMountedChargeBonus(s, unitPicker.src, selected, 2)]))
           ELSE /\ Len(timers) < MaxTimers
                /\ Become(updateUI(setTimeout(
                        [w EXCEPT !.st = announce(setSelection(s, unitPicker.src,
                                                unitSelection(selected)))],
                        "endPhase", EndPhaseDelay, "none", << >>, {})))

\* Escape that deselects and leaves the pending unit out of the acted set
KeyEscape_forget ==
    /\ unitPicker.open \/ state.selectedUnit # NoUnit
    /\ LET w == [World EXCEPT !.picker = ClosedPicker]
           s == state
           s2 == [s EXCEPT !.pendingSecondMove = NoUnit]
       IN  IF s.selectedUnit # NoUnit
           THEN Become(updateUI([w EXCEPT !.st =
                    [s2 EXCEPT !.selectedUnit = NoUnit, !.validMoves = {}]]))
           ELSE Become(w)

\* Escape: the first keydown handler closes the unit picker, the second
\* deselects and skips a pending second move
KeyEscape ==
    /\ unitPicker.open \/ state.selectedUnit # NoUnit
    /\ LET w == [World EXCEPT !.picker = ClosedPicker]
           s == state
           s2 == IF s.pendingSecondMove # NoUnit
                 THEN [s EXCEPT !.activatedUnits = @ \cup {s.pendingSecondMove},
                                !.pendingSecondMove = NoUnit]
                 ELSE s
       IN  IF s.selectedUnit # NoUnit
           THEN Become(updateUI([w EXCEPT !.st =
                    [s2 EXCEPT !.selectedUnit = NoUnit, !.validMoves = {}]]))
           ELSE Become(w)

\* Space or Enter
KeyEndPhase(ms) ==
    /\ inFactionPhase
    /\ roundOpen
    /\ Len(timers) < MaxTimers
    /\ canWait(ms)
    /\ Become(endPhase(WorldAfter(ms)))

\* click on the End-Phase button
BtnEndPhase(ms) ==
    /\ ~modalOpen
    /\ ~btnDisabled
    /\ roundOpen
    /\ Len(timers) < MaxTimers
    /\ canWait(ms)
    /\ Become(endPhase(WorldAfter(ms)))

\* plus button of the damage allocation modal
ModalPlus(k) ==
    /\ damageModal.open
    /\ k \in DOMAIN damageModal.enemies
    /\ damageModal.remaining > 0
    /\ damageModal' = [damageModal EXCEPT !.allocation[k] = @ + 1,
                                          !.remaining = @ - 1]
    /\ UNCHANGED <<state, unitPicker, timers, btnDisabled, hist, unitTypeCounters>>

\* a minus button that is not disabled at 0
ModalMinus_free(k) ==
    /\ damageModal.open
    /\ k \in DOMAIN damageModal.enemies
    /\ damageModal' = [damageModal EXCEPT !.allocation[k] = @ - 1,
                                          !.remaining = @ + 1]
    /\ UNCHANGED <<state, unitPicker, timers, btnDisabled, hist, unitTypeCounters>>

\* minus button of the damage allocation modal
ModalMinus(k) ==
    /\ damageModal.open
    /\ k \in DOMAIN damageModal.enemies
    /\ damageModal.allocation[k] > 0
    /\ damageModal' = [damageModal EXCEPT !.allocation[k] = @ - 1,
                                          !.remaining = @ + 1]
    /\ UNCHANGED <<state, unitPicker, timers, btnDisabled, hist, unitTypeCounters>>

\* confirm button of the damage allocation modal: resolves the promise
\* that resolveCombatAsync awaits
ModalConfirm(ms) ==
    /\ damageModal.open
    /\ damageModal.remaining = 0
    /\ canWait(ms)
    /\ LET m == damageModal
           c == m.cont
           s1 == applyAllocation(state, m.enemies, m.allocation, TRUE)
           w == [WorldAfter(ms) EXCEPT !.modal = ClosedModal, !.st = s1,
                                       !.h.lastAlloc = m.allocation]
       IN  Become(afterCombat(w,
                CombatFrom(s1, c.groups, nextGi(c.gi, c.side),
                           nextSide(c.side), TRUE),
                c.groups, c.done))

\* setTimeout(() => endPhase(), 300) of the targeting click
TimerEndPhase(k) ==
    /\ canFire(k)
    /\ timers[k].kind = "endPhase"
    /\ Become(endPhase([World EXCEPT !.timers = afterFire(k)]))

\* the delayed start of the resolution when Player 1 has nothing to target
TimerStartResolution(k) ==
    /\ canFire(k)
    /\ timers[k].kind = "startRes"
    /\ Become(startResolution([World EXCEPT !.timers = afterFire(k)]))

\* a delay of executeResolutionSequence ends and its next step runs
TimerResolution(k) ==
    /\ canFire(k)
    /\ timers[k].kind = "res"
    /\ Become(resolutionStep([World EXCEPT !.timers = afterFire(k)],
                             timers[k].pc, timers[k].done, timers[k].fought))

Next ==
    \/ \E hex \in ClickHexes : ClickMove(hex)
    \/ \E hex \in ClickHexes, ms \in UserDelays : ClickTarget(hex, ms)
    \/ \E k \in 1..2, ms \in UserDelays : PickUnit(k, ms)
    \/ KeyEscape
    \/ \E ms \in UserDelays : KeyEndPhase(ms)
    \/ \E ms \in UserDelays : BtnEndPhase(ms)
    \/ \E k \in 1..2 : ModalPlus(k)
    \/ \E k \in 1..2 : ModalMinus(k)
    \/ \E ms \in UserDelays : ModalConfirm(ms)
    \/ \E k \in 1..MaxTimers : TimerEndPhase(k)
    \/ \E k \in 1..MaxTimers : TimerStartResolution(k)
    \/ \E k \in 1..MaxTimers : TimerResolution(k)

Spec == Init /\ [][Next]_vars

(***************************************************************************)
(* The long exploration: every input but the movement clicks.              *)
(***************************************************************************)
NextLong ==
    \/ \E hex \in ClickHexes, ms \in UserDelays : ClickTarget(hex, ms)
    \/ \E k \in 1..2, ms \in UserDelays : PickUnit(k, ms)
    \/ KeyEscape
    \/ \E ms \in UserDelays : KeyEndPhase(ms)
    \/ \E ms \in UserDelays : BtnEndPhase(ms)
    \/ \E k \in 1..2 : ModalPlus(k)
    \/ \E k \in 1..2 : ModalMinus(k)
    \/ \E ms \in UserDelays : ModalConfirm(ms)
    \/ \E k \in 1..MaxTimers : TimerEndPhase(k)
    \/ \E k \in 1..MaxTimers : TimerStartResolution(k)
    \/ \E k \in 1..MaxTimers : TimerResolution(k)

SpecLong == InitLong /\ [][NextLong]_vars

(***************************************************************************)
(* The rules engine driven through its exported entry points as well: the  *)
(* two-combatant override and combat resolution without an allocation      *)
(* callback (src/state.js), which src/game.js never calls; each is called  *)
(* at most once in a run.                                                  *)
(***************************************************************************)
ApiAllocateCombatDamage(unit1, unit2, damage1to2) ==
    /\ inFactionPhase
    /\ ~modalOpen
    /\ timers = << >>
    /\ ~("allocateCombatDamage" \in hist.api)
    /\ unit1 \in Range(state.units)
    /\ unit2 \in Range(state.units)
    /\ isAlive(state.U[unit1]) /\ isAlive(state.U[unit2])
    /\ state.U[unit1].faction # state.U[unit2].faction
    /\ state.U[unit1].row = state.U[unit2].row
    /\ state.U[unit1].col = state.U[unit2].col
    /\ Become([World EXCEPT
            !.st = allocateCombatDamage(state, unit1, unit2, damage1to2),
            !.h.api = @ \cup {"allocateCombatDamage"}])

ApiResolveCombat ==
    /\ inFactionPhase
    /\ ~modalOpen
    /\ timers = << >>
    /\ ~("resolveCombatAsync" \in hist.api)
    /\ Len(getEngagedGroups(state)) > 0
    /\ Become([World EXCEPT
            !.st = CombatFrom(state, getEngagedGroups(state), 1, 1, FALSE).s,
            !.h.api = @ \cup {"resolveCombatAsync"}])

NextApi ==
    \/ Next
    \/ \E unit1 \in UnitIds, unit2 \in UnitIds, damage1to2 \in ApiDamages :
            ApiAllocateCombatDamage(unit1, unit2, damage1to2)
    \/ ApiResolveCombat

SpecApi == InitApi /\ [][NextApi]_vars

(***************************************************************************)
(* The ranged pass of the rules engine called on its own (src/state.js):   *)
(* an Archers with two enemies in reach, in every combination of having    *)
(* moved, remembering a last target, holding a recorded selection, and of  *)
(* the damage the enemies have taken.                                      *)
(***************************************************************************)
VolleyPosition ==
    [units |-> << createUnit(ARCHERS, 1, 2, 3),
                  createUnit(MILITIA, 2, 1, 3),
                  createUnit(MILITIA, 2, 2, 2) >>,
     castleDamage |-> <<0, 0>>, streak |-> <<0, 0>>, prevDiff |-> 0]

VolleyState(moved, last, sel, d1, d2) ==
    [InitState(VolleyPosition) EXCEPT
        !.phase = RESOLUTION_COMBAT,
        !.U[1].movedThisTurn = moved,
        !.U[1].lastTarget = last,
        !.U[2].damage = d1,
        !.U[3].damage = d2,
        !.abilityTargeting =
            IF sel = NoUnit THEN NoTargeting
            ELSE [isSet |-> TRUE, active |-> FALSE, currentPlayer |-> 1,
                  selections |-> [i \in {1} |-> unitSelection(sel)],
                  unitsToTarget |-> <<1>>]]

InitEngine ==
    \E moved \in BOOLEAN, last \in {NoUnit, 2, 3}, sel \in {NoUnit, 2, 3},
       d1 \in 0..(MaxHp - 1), d2 \in 0..(MaxHp - 1) :
        /\ state = VolleyState(moved, last, sel, d1, d2)
        /\ unitPicker = ClosedPicker
        /\ damageModal = ClosedModal
        /\ timers = << >>
        /\ btnDisabled = TRUE
        /\ hist = InitHist(VolleyPosition, 1)
        /\ unitTypeCounters = countersAfter(VolleyPosition.units)

ApiResolveRangedAbilities ==
    /\ ~("resolveRangedAbilities" \in hist.api)
    /\ Become([World EXCEPT
            !.st = resolveRangedAbilities(state),
            !.h.api = @ \cup {"resolveRangedAbilities"}])

NextEngine == ApiResolveRangedAbilities

SpecEngine == InitEngine /\ [][NextEngine]_vars

(***************************************************************************)
(* getValidMoves on its own: a unit of every kind of mover on a corner, an *)
(* edge and an inner hex, with up to two units of its side (living or      *)
(* destroyed by a Charge and not yet removed) and an enemy around it; the  *)
(* only input is the click that selects a unit of the moving side.         *)
(***************************************************************************)
MoverTypes == {MILITIA, MOUNTED, ASSAULT_BEASTS, COMMANDER, AERIAL}

MoverHexes == {<<0, 0>>, <<2, 3>>, <<5, 4>>}

FriendHexes == {<<0, 1>>, <<1, 3>>, <<2, 2>>, <<4, 3>>, <<4, 4>>}

EnemyHexes == {<<2, 3>>, <<5, 4>>, <<1, 3>>, <<4, 4>>}

MovePosition(type, faction, hex, moved, f1, d1, f2, d2, e, de) ==
    [units |-> << [createUnit(type, faction, hex[1], hex[2])
                        EXCEPT !.movedThisTurn = moved],
                  wounded(createUnit(MILITIA, faction, f1[1], f1[2]), d1),
                  wounded(createUnit(MILITIA, faction, f2[1], f2[2]), d2),
                  wounded(createUnit(MILITIA, Other(faction), e[1], e[2]), de) >>,
     castleDamage |-> <<0, 0>>, streak |-> <<0, 0>>, prevDiff |-> 0]

InitMoves ==
    \E type \in MoverTypes, faction \in {1, 2}, hex \in MoverHexes,
       moved \in BOOLEAN, f1 \in FriendHexes, f2 \in FriendHexes,
       d1 \in {0, MaxHp}, d2 \in {0, MaxHp}, e \in EnemyHexes, de \in {0, MaxHp} :
        LET sc == MovePosition(type, faction, hex, moved, f1, d1, f2, d2, e, de)
        IN  /\ type = MOUNTED \/ ~moved
            /\ state = [InitState(sc) EXCEPT
                            !.phase = IF faction = 1 THEN FACTION_1 ELSE FACTION_2]
            /\ unitPicker = ClosedPicker /\ damageModal = ClosedModal
            /\ timers = << >> /\ btnDisabled = FALSE
            /\ hist = InitHist(sc, 1)
            /\ unitTypeCounters = countersAfter(sc.units)

\* the click that selects the only unit of the moving side on its hex
SelectUnit(i) ==
    /\ inFactionPhase
    /\ state.selectedUnit = NoUnit
    /\ i \in Range(state.units)
    /\ getFactionUnitsAt(state, state.U[i].row, state.U[i].col,
                         IF state.phase = FACTION_1 THEN 1 ELSE 2) = <<i>>
    /\ Become(handleMoveClick(World, <<state.U[i].row, state.U[i].col>>))

NextMoves == \E i \in UnitIds : SelectUnit(i)

SpecMoves == InitMoves /\ [][NextMoves]_vars

(***************************************************************************)
(* The geometry on its own: a Commander and a Militia of Player 1 and a    *)
(* Militia of Player 2 on any three hexes of the board; selecting a unit   *)
(* computes its destinations with hexDistance (Commander) or with          *)
(* getAdjacentHexes (Militia).                                             *)
(***************************************************************************)
BoardPosition(a, b, c) ==
    [units |-> << createUnit(COMMANDER, 1, a[1], a[2]),
                  createUnit(MILITIA, 1, b[1], b[2]),
                  createUnit(MILITIA, 2, c[1], c[2]) >>,
     castleDamage |-> <<0, 0>>, streak |-> <<0, 0>>, prevDiff |-> 0]

InitBoard ==
    \E a \in (0..(BoardSize - 1)) \X (0..(BoardSize - 1)),
       b \in (0..(BoardSize - 1)) \X (0..(BoardSize - 1)),
       c \in (0..(BoardSize - 1)) \X (0..(BoardSize - 1)) :
        /\ state = InitState(BoardPosition(a, b, c))
        /\ unitPicker = ClosedPicker /\ damageModal = ClosedModal
        /\ timers = << >> /\ btnDisabled = FALSE
        /\ hist = InitHist(BoardPosition(a, b, c), 1)
        /\ unitTypeCounters = countersAfter(BoardPosition(a, b, c).units)

SpecBoard == InitBoard /\ [][NextMoves]_vars

(***************************************************************************)
(* Unit creation on its own: the exported createGameState, createUnit and  *)
(* removeDeadUnits of src/state.js called in any order, as the setup       *)
(* functions of src/game.js and a test of the rules engine do.             *)
(***************************************************************************)
MaxUnits == 2        \* units created in one game
MaxNumber == 3       \* highest sequence number explored

\* the types and the hexes that the calls are made with
SetupTypes == {ARCHERS, SPEARS}

SetupHexes == {<<3, 0>>, <<2, 1>>}

InitSetup ==
    /\ state = createGameState
    /\ unitPicker = ClosedPicker
    /\ damageModal = ClosedModal
    /\ timers = << >>
    /\ btnDisabled = FALSE
    /\ hist = InitHist([prevDiff |-> 0], 1)
    /\ unitTypeCounters = NoCounters

\* state.units.push(createUnit(type, faction, row, col))
ApiCreateUnit(type, faction, hex) ==
    /\ state.phase = SETUP
    /\ Len(state.U) < MaxUnits
    /\ unitTypeCounters[faction][type] < MaxNumber
    /\ LET r == numberedUnit(unitTypeCounters, type, faction, hex[1], hex[2])
           id == Len(state.U) + 1
       IN  /\ state' = [state EXCEPT !.U = Append(@, r.unit),
                                     !.units = Append(@, id)]
           /\ unitTypeCounters' = r.counters
    /\ UNCHANGED <<unitPicker, damageModal, timers, btnDisabled, hist>>

\* a unit is brought to maxHp and the cleanup pass runs
ApiDestroyUnit(i) ==
    /\ i \in Range(state.units)
    /\ state' = removeDeadUnits(applyDamage(state, i, state.U[i].maxHp))
    /\ UNCHANGED <<unitPicker, damageModal, timers, btnDisabled, hist,
                   unitTypeCounters>>

\* state = createGameState(): the next game of the same page or process
ApiCreateGameState ==
    /\ state.U # << >>
    /\ state' = createGameState
    /\ UNCHANGED <<unitPicker, damageModal, timers, btnDisabled, hist,
                   unitTypeCounters>>

NextSetup ==
    \/ \E type \in SetupTypes, faction \in {1, 2}, hex \in SetupHexes :
            ApiCreateUnit(type, faction, hex)
    \/ \E i \in UnitIds : ApiDestroyUnit(i)
    \/ ApiCreateGameState

SpecSetup == InitSetup /\ [][NextSetup]_vars

(***************************************************************************)
(* The long exploration under fairness: a timer that is due runs (the      *)
(* event loop of the browser), and the player who is asked to allocate     *)
(* damage answers in the end.                                              *)
(***************************************************************************)
\* some timer callback runs
TimerFires ==
    \E k \in 1..MaxTimers :
        TimerEndPhase(k) \/ TimerStartResolution(k) \/ TimerResolution(k)

\* WF_vars(TimerFires), with ENABLED <<TimerFires>>_vars written as the
\* state predicate it is equal to: a callback can run exactly when a timer
\* is pending
TimersRun == []<>(timers = << >>) \/ []<><<TimerFires>>_vars

\* no allocation request is left unanswered for ever
Answered == []<>(~damageModal.open)

Fairness == TimersRun /\ Answered

SpecLongFair == InitLong /\ [][NextLong]_vars /\ Fairness

(***************************************************************************)
(* Vocabulary of the properties.                                           *)
(***************************************************************************)
Hexes == (0..(BoardSize - 1)) \X (0..(BoardSize - 1))

LiveUnits == {i \in Range(state.units) : state.U[i].damage < state.U[i].maxHp}

LivingAt(hex, faction) ==
    {i \in LiveUnits : /\ state.U[i].row = hex[1]
                       /\ state.U[i].col = hex[2]
                       /\ state.U[i].faction = faction}

\* resolution passes that wait on a delay or on an allocation answer
InProgress ==
    Cardinality({k \in DOMAIN timers : timers[k].kind = "res"})
        + (IF damageModal.open THEN 1 ELSE 0)

\* this step is the step pc of a resolution pass
ResolutionStepTaken(pc) ==
    \E k \in DOMAIN timers : timers[k].pc = pc /\ TimerResolution(k)

AllSteps == <<"combat", "melee", "ranged", "castle", "win">>

StepsBefore(pc) ==
    IF pc = "combat" THEN << >>
    ELSE IF pc = "melee" THEN SubSeq(AllSteps, 1, 1)
    ELSE IF pc = "ranged" THEN SubSeq(AllSteps, 1, 2)
    ELSE IF pc = "castle" THEN SubSeq(AllSteps, 1, 3)
    ELSE SubSeq(AllSteps, 1, 4)

(***************************************************************************)
(* C1.  In every state no hex holds more than 2 living units of the same   *)
(* faction, whatever moves, double moves, Forward! relocations, taunts and *)
(* resolution passes were played.                                          *)
(***************************************************************************)
C1_TwoPerHex ==
    \A hex \in Hexes : \A faction \in {1, 2} :
        Cardinality(LivingAt(hex, faction)) <= 2

(***************************************************************************)
(* C2.  Every resolution pass runs combat, melee, ranged, castle, win      *)
(* evaluation in that order, a step starts only when the one before it     *)
(* has finished (allocation answers included), and every pass evaluates    *)
(* the win condition exactly once: a pass that has started and has not     *)
(* evaluated it is still waiting on a delay or on an allocation answer.    *)
(***************************************************************************)
C2_StepOrder ==
    /\ \A k \in DOMAIN timers :
            timers[k].kind = "res" => timers[k].done = StepsBefore(timers[k].pc)
    /\ damageModal.open => damageModal.cont.done = << >>
    /\ hist.lastDone \in {<< >>, AllSteps}
    /\ hist.open = InProgress

(***************************************************************************)
(* C3.  At most one resolution sequence is in progress at any time, at     *)
(* most one is started in a round, and none starts while a unit that was   *)
(* asked for an ability target has not been given one.                     *)
(***************************************************************************)
C3_OneResolution ==
    /\ InProgress <= 1
    /\ hist.started <= 1
    /\ ~hist.early

(***************************************************************************)
(* C4.  The phase changes only along the edges Setup -> Faction1 ->        *)
(* Faction2 -> (AbilityTargeting) -> ResolutionCombat -> ResolutionMelee   *)
(* -> ResolutionRanged -> ResolutionCastle -> Faction1 or GameOver.        *)
(***************************************************************************)
PhaseEdges ==
    {<<SETUP, FACTION_1>>, <<FACTION_1, FACTION_2>>,
     <<FACTION_2, ABILITY_TARGETING>>, <<FACTION_2, RESOLUTION_COMBAT>>,
     <<ABILITY_TARGETING, RESOLUTION_COMBAT>>,
     <<RESOLUTION_COMBAT, RESOLUTION_MELEE>>,
     <<RESOLUTION_MELEE, RESOLUTION_RANGED>>,
     <<RESOLUTION_RANGED, RESOLUTION_CASTLE>>,
     <<RESOLUTION_CASTLE, FACTION_1>>, <<RESOLUTION_CASTLE, GAME_OVER>>}

C4_PhaseEdges ==
    [][state'.phase # state.phase
        => <<state.phase, state'.phase>> \in PhaseEdges]_vars

(***************************************************************************)
(* C5.  Once the phase is GameOver it stays GameOver, and no unit          *)
(* position, unit damage, castle damage total or round number changes.     *)
(***************************************************************************)
C5_GameOverTerminal ==
    [][state.phase = GAME_OVER
        => /\ state'.phase = GAME_OVER
           /\ \A i \in DOMAIN state.U :
                /\ state'.U[i].row = state.U[i].row
                /\ state'.U[i].col = state.U[i].col
                /\ state'.U[i].damage = state.U[i].damage
           /\ state'.castleDamage = state.castleDamage
           /\ state'.round = state.round]_vars

(***************************************************************************)
(* Vocabulary of the win and castle properties.                            *)
(***************************************************************************)
Diff == state.castleDamage[1] - state.castleDamage[2]

EnemyCastleRow(faction) == IF faction = 1 THEN 0 ELSE BoardSize - 1

\* living units of the faction that stand unengaged in the enemy castle row
UnengagedInCastle(faction) ==
    {i \in LiveUnits :
        /\ state.U[i].faction = faction
        /\ state.U[i].row = EnemyCastleRow(faction)
        /\ LivingAt(<<state.U[i].row, state.U[i].col>>, Other(faction)) = {}}

RamInCastle(faction) ==
    \E i \in UnengagedInCastle(faction) : state.U[i].type = BATTERY_RAM

GameOverFor(faction) ==
    /\ hist'.winResult.winner = faction
    /\ state'.phase = GAME_OVER
    /\ state'.round = state.round

(***************************************************************************)
(* C6.  At the win evaluation, with no instant-win marker set: a castle    *)
(* damage difference of 2 or more makes faction 2 the winner, one of -2    *)
(* or less makes faction 1 the winner, and the phase becomes GameOver in   *)
(* that round.                                                             *)
(***************************************************************************)
C6_DiffWin ==
    [][ResolutionStepTaken("win") /\ state.batteryRamWin = 0
        => /\ Diff >= 2 => GameOverFor(2)
           /\ Diff <= -2 => GameOverFor(1)]_vars

C6_Witness ==
    /\ state.phase = GAME_OVER
    /\ state.batteryRamWin = 0
    /\ Diff >= 2
    /\ hist.winResult.winner = 2

(***************************************************************************)
(* C7 as stated.  A difference of +1 at two consecutive evaluations makes  *)
(* faction 2 win at the second (-1 twice: faction 1); a single +1 or -1    *)
(* yields no winner; an evaluation with difference 0 or with the opposite  *)
(* sign resets the other streak to 0.                                      *)
(***************************************************************************)
StreakWins ==
    /\ Diff = 1 /\ hist.prevDiff = 1 => hist'.winResult.winner = 2
    /\ Diff = -1 /\ hist.prevDiff = -1 => hist'.winResult.winner = 1
    /\ Diff = 1 /\ hist.prevDiff # 1 => hist'.winResult.winner = 0
    /\ Diff = -1 /\ hist.prevDiff # -1 => hist'.winResult.winner = 0

C8_RamWins ==
    [][/\ \A faction \in {1, 2} :
            ResolutionStepTaken("castle") /\ RamInCastle(faction)
                => /\ state'.batteryRamWin = faction
                   /\ state'.castleDamage = state.castleDamage
       /\ \A faction \in {1, 2} :
            ResolutionStepTaken("win") /\ state.batteryRamWin = faction
                => GameOverFor(faction)]_vars

(***************************************************************************)
(* C9.  A castle step without instant win adds to each faction's castle    *)
(* damage total the number of living unengaged enemy units in its castle   *)
(* row (engaged units add nothing); the totals change in no other step and *)
(* never decrease.                                                         *)
(***************************************************************************)
C9_CastleDamage ==
    [][/\ ResolutionStepTaken("castle") /\ ~RamInCastle(1) /\ ~RamInCastle(2)
            => \A faction \in {1, 2} :
                    state'.castleDamage[Other(faction)] =
                        state.castleDamage[Other(faction)]
                            + Cardinality(UnengagedInCastle(faction))
       /\ state'.castleDamage # state.castleDamage
            => ResolutionStepTaken("castle")
       /\ \A faction \in {1, 2} :
            state'.castleDamage[faction] >= state.castleDamage[faction]]_vars

\* the castle step has just counted one unengaged unit and skipped an
\* engaged one
C9_Witness ==
    /\ \E k \in DOMAIN timers : timers[k].pc = "win"
    /\ Cardinality(UnengagedInCastle(1)) = 1
    /\ state.castleDamage[2] = 1
    /\ \E i \in LiveUnits :
            /\ state.U[i].row = EnemyCastleRow(state.U[i].faction)
            /\ ~(i \in UnengagedInCastle(state.U[i].faction))

(***************************************************************************)
(* C10.  In every step, whichever operation takes it (combat with the      *)
(* allocation answer or with the even split, abilities, charge, counter-   *)
(* charge, the two-combatant override), no unit's damage decreases, maxHp  *)
(* stays 5, a unit counts as alive exactly when damage < maxHp, and a unit *)
(* leaves the live set only when it is not alive.                          *)
(***************************************************************************)
C10_DamageMonotone ==
    [][\A i \in DOMAIN state.U :
        /\ state'.U[i].damage >= state.U[i].damage
        /\ state'.U[i].maxHp = MaxHp
        /\ isAlive(state'.U[i]) <=> state'.U[i].damage < MaxHp
        /\ (i \in Range(state.units) /\ ~(i \in Range(state'.units)))
                => state'.U[i].damage >= MaxHp]_vars

\* the override and the even split have been used, a unit was destroyed
C10_Witness ==
    /\ hist.api = {"allocateCombatDamage", "resolveCombatAsync"}
    /\ \E i \in DOMAIN state.U :
            state.U[i].damage >= MaxHp /\ ~(i \in Range(state.units))
    /\ \E i \in LiveUnits : state.U[i].damage > 0

(***************************************************************************)
(* Vocabulary of the combat properties.                                    *)
(***************************************************************************)
\* damage that unit i takes in this step
Gain(i) == state'.U[i].damage - state.U[i].damage

\* damage that the units of the set take together in this step
SumGain(set) ==
    LET q == SelectSeq([i \in DOMAIN state.U |-> i], LAMBDA i : i \in set)
    IN  SumSeq([k \in DOMAIN q |-> Gain(q[k])])

\* 3 per Militia plus 2 per other unit
OutTotal(set) ==
    3 * Cardinality({i \in set : state.U[i].type = MILITIA})
        + 2 * Cardinality({i \in set : state.U[i].type # MILITIA})

EngagedHexes == {h \in Hexes : LivingAt(h, 1) # {} /\ LivingAt(h, 2) # {}}

\* this step is the combat step of the resolution pass of timer k
CombatStep(k) == timers[k].pc = "combat" /\ TimerResolution(k)

AllocationConfirmed == \E ms \in UserDelays : ModalConfirm(ms)

(***************************************************************************)
(* C11.  In the combat step each side of an engaged hex deals 3 per        *)
(* Militia plus 2 per other unit, counted over the units alive on the hex  *)
(* when the step starts, also when the other side's damage has destroyed   *)
(* them in this step; a side with one unit takes the full opposing total,  *)
(* and the total offered for allocation against a side with several units  *)
(* is the opposing total.                                                  *)
(***************************************************************************)
C11_CombatTotals ==
    [][/\ \A k \in DOMAIN timers :
            CombatStep(k) /\ Len(timers') = Len(timers)
                => \A h \in EngagedHexes : \A f \in {1, 2} :
                        SumGain(LivingAt(h, f)) = OutTotal(LivingAt(h, Other(f)))
       /\ \A k \in DOMAIN timers :
            CombatStep(k) /\ Len(timers') < Len(timers)
                => LET c == damageModal'.cont
                       h == c.groups[c.gi].hex
                   IN  /\ damageModal'.open
                       /\ h \in EngagedHexes
                       /\ damageModal'.total = OutTotal(LivingAt(h, c.side))
                       /\ Range(damageModal'.enemies) = LivingAt(h, Other(c.side))
                       /\ Cardinality(LivingAt(h, Other(c.side))) > 1
                       /\ c.side = 2
                            => SumGain(LivingAt(h, 2)) = OutTotal(LivingAt(h, 1))
       /\ AllocationConfirmed
            => LET c == damageModal.cont
                   g == c.groups[c.gi]
               IN  /\ SumGain(Range(damageModal.enemies)) = damageModal.total
                   /\ c.side = 1 /\ Len(g.faction1) = 1
                        => Gain(g.faction1[1]) = OutTotal(Range(g.faction2))]_vars

\* a combat step has run to its end after an allocation: a unit of
\* Player 2 was destroyed in it and the damage it dealt was allocated
C11_Witness ==
    /\ \E k \in DOMAIN timers : timers[k].pc = "melee"
    /\ SumSeq(hist.lastAlloc) > 0
    /\ damageModal.attacker = 0
    /\ \E i \in DOMAIN state.U :
            /\ state.U[i].faction = 2
            /\ state.U[i].damage >= MaxHp
            /\ ~(i \in Range(state.units))

(***************************************************************************)
(* C12.  When combat is resolved without an allocation callback, a side of *)
(* n > 1 units attacked for a total T takes floor(T/n) per unit plus 1 for *)
(* each of the first T mod n units in enumeration order: the amounts sum   *)
(* to T, differ by at most 1, and never grow along the enumeration.        *)
(***************************************************************************)
C12_EvenSplit ==
    [][ApiResolveCombat
        => \A h \in EngagedHexes : \A f \in {1, 2} :
            LET q == SelectSeq(state.units, LAMBDA i : i \in LivingAt(h, f))
                n == Len(q)
                T == OutTotal(LivingAt(h, Other(f)))
            IN  n > 1 =>
                  /\ \A i \in 1..n :
                        Gain(q[i]) = (T \div n) + (IF i - 1 < T % n THEN 1 ELSE 0)
                  /\ SumGain(Range(q)) = T
                  /\ \A i, j \in 1..n : Gain(q[i]) - Gain(q[j]) <= 1
                  /\ \A i, j \in 1..n : i < j => Gain(q[i]) >= Gain(q[j])]_vars

\* combat was resolved without a callback and split 3 as 2 and 1 between
\* two units of one hex
C12_Witness ==
    /\ "resolveCombatAsync" \in hist.api
    /\ \E sc \in ApiScenarios : \E i, j \in DOMAIN sc.units :
        /\ i < j
        /\ state.U[i] = [sc.units[i] EXCEPT !.damage = @ + 2]
        /\ state.U[j] = [sc.units[j] EXCEPT !.damage = @ + 1]
        /\ state.U[i].faction = state.U[j].faction
        /\ state.U[i].row = state.U[j].row /\ state.U[i].col = state.U[j].col

(***************************************************************************)
(* C13.  In the damage allocation modal the allocated amounts plus the     *)
(* remaining amount always equal the total and no amount is below 0, also  *)
(* after every plus or minus press; the allocation is confirmed only with  *)
(* nothing remaining, and then each unit of the attacked side (more than   *)
(* one unit) takes exactly its allocated amount, the amounts summing to    *)
(* the attackers' total.                                                   *)
(***************************************************************************)
C13_Allocation ==
    [][/\ damageModal'.open
            => /\ SumSeq(damageModal'.allocation) + damageModal'.remaining
                    = damageModal'.total
               /\ damageModal'.remaining >= 0
               /\ \A k \in DOMAIN damageModal'.allocation :
                        damageModal'.allocation[k] >= 0
       /\ AllocationConfirmed
            => LET m == damageModal
                   g == m.cont.groups[m.cont.gi]
                   attackers == IF m.cont.side = 1 THEN g.faction1 ELSE g.faction2
               IN  /\ m.remaining = 0
                   /\ Len(m.enemies) > 1
                   /\ \A k \in DOMAIN m.enemies :
                        /\ Gain(m.enemies[k]) = m.allocation[k]
                        /\ Gain(m.enemies[k]) >= 0
                   /\ SumGain(Range(m.enemies)) = OutTotal(Range(attackers))]_vars

\* an allocation that gave damage to two units has been confirmed and the
\* pass has gone on
C13_Witness ==
    /\ \E k1, k2 \in DOMAIN hist.lastAlloc :
            k1 # k2 /\ hist.lastAlloc[k1] > 0 /\ hist.lastAlloc[k2] > 0
    /\ ~damageModal.open
    /\ \E k \in DOMAIN timers : "combat" \in Range(timers[k].done)

(***************************************************************************)
(* Vocabulary of the ability properties.                                   *)
(***************************************************************************)
\* this step is the melee or the ranged step of the pass of timer k
AbilityStep(k) == timers[k].pc \in {"melee", "ranged"} /\ TimerResolution(k)

\* the ability effects applied in this step, in the order of application
Effects == SelectSeq(state'.log, LAMBDA line : line.ability # "none")

(***************************************************************************)
(* C14.  In the melee and the ranged step of a pass no ability effect is   *)
(* applied by a unit that took part in an engaged group of that pass's     *)
(* combat step, nor by a unit that is engaged when its turn comes.         *)
(***************************************************************************)
C14_NoAbilityAfterCombat ==
    [][\A k \in DOMAIN timers :
        AbilityStep(k)
            => /\ \A n \in DOMAIN Effects : ~(Effects[n].unit \in timers[k].fought)
               /\ Effects # << >> => ~isEngaged(state, Effects[1].unit)]_vars

(***************************************************************************)
(* C15.  Every ability effect hits an enemy that is in the ability's reach *)
(* when the effect is applied: Pierce and Taunt at distance exactly 1,     *)
(* Volley at distance 1 or 2, Mortar on a hex at distance 1 or 2 on which  *)
(* the enemy stands.                                                       *)
(***************************************************************************)
C15_LegalTargets ==
    \A n \in DOMAIN state.log :
        LET line == state.log[n]
            d == hexDistance(line.from[1], line.from[2], line.at[1], line.at[2])
        IN  line.ability # "none"
                => /\ state.U[line.target].faction # state.U[line.unit].faction
                   /\ line.ability \in {"Pierce", "Taunt"} => d = 1
                   /\ line.ability \in {"Volley", "Mortar"} => d \in {1, 2}

(***************************************************************************)
(* Vocabulary of the targeting properties.                                 *)
(***************************************************************************)
\* this step ends the movement phase of Player 2
EndsFaction2 ==
    /\ state.phase = FACTION_2
    /\ \E ms \in UserDelays : KeyEndPhase(ms) \/ BtnEndPhase(ms)

\* the living enemies in the reach of unit i's targeted ability
Reach(i) ==
    {e \in LiveUnits :
        /\ state.U[e].faction # state.U[i].faction
        /\ LET d == hexDistance(state.U[i].row, state.U[i].col,
                                state.U[e].row, state.U[e].col)
           IN  \/ state.U[i].type \in {SPEARS, JESTERS} /\ d = 1
               \/ state.U[i].type = ARCHERS /\ d \in {1, 2}
               \/ state.U[i].type = CANNON /\ ~state.U[i].movedThisTurn
                    /\ d \in {1, 2}}

\* unit i is living and unengaged and its targeted ability has a target
Eligible(i) == i \in LiveUnits /\ ~isEngaged(state, i) /\ Reach(i) # {}

(***************************************************************************)
(* C16.  Ending the movement phase of Player 2 enters the targeting phase  *)
(* if and only if some living unengaged Archers, unmoved Cannon, Spears or *)
(* Jesters has a legal target; otherwise the resolution starts at once.    *)
(***************************************************************************)
C16_TargetingEntered ==
    [][EndsFaction2
        => IF \E i \in LiveUnits : Eligible(i)
           THEN state'.phase = ABILITY_TARGETING
           ELSE state'.phase = RESOLUTION_COMBAT]_vars

\* the units with a recorded selection
Recorded(s) ==
    IF s.abilityTargeting.isSet THEN DOMAIN s.abilityTargeting.selections ELSE {}

\* the units of the targeting session
Session(s) ==
    IF s.abilityTargeting.isSet THEN Range(s.abilityTargeting.unitsToTarget) ELSE {}

(***************************************************************************)
(* C17.  A targeting session starts with Player 2 when Player 2 has        *)
(* eligible units and with Player 1 only when Player 2 has none; at most   *)
(* one unit records a selection in a step; a unit of Player 1 records only *)
(* when every eligible unit of Player 2 has recorded; and the targeting    *)
(* phase is left for the resolution only when every unit of the session    *)
(* has a recorded selection.                                               *)
(***************************************************************************)
C17_TargetingOrder ==
    [][/\ EndsFaction2 /\ state'.phase = ABILITY_TARGETING
            => state'.abilityTargeting.currentPlayer =
                    IF \E i \in LiveUnits : Eligible(i) /\ state.U[i].faction = 2
                    THEN 2 ELSE 1
       /\ state.phase = ABILITY_TARGETING /\ state'.phase = ABILITY_TARGETING
            => LET new == Recorded(state') \ Recorded(state)
               IN  /\ Cardinality(new) <= 1
                   /\ \A i \in new :
                        state.U[i].faction = 1
                            => \A j \in LiveUnits :
                                    Eligible(j) /\ state.U[j].faction = 2
                                        => j \in Recorded(state)
       /\ state.phase = ABILITY_TARGETING /\ state'.phase = RESOLUTION_COMBAT
            => Session(state) \subseteq Recorded(state)]_vars

\* the first element of a sequence (NoUnit when it is empty)
FirstOf(q) == IF q = << >> THEN NoUnit ELSE q[1]

\* the unit that is prompted for a target (NoUnit when there is none)
Prompted ==
    IF state.abilityTargeting.isSet /\ state.abilityTargeting.active
    THEN FirstOf(unitsNeedingTargets(state, state.abilityTargeting.currentPlayer))
    ELSE NoUnit

\* this step is a click, during targeting, on a hex that holds no valid
\* target for the prompted unit
RejectedClick ==
    /\ Prompted # NoUnit
    /\ \E hex \in ClickHexes :
        /\ \E ms \in UserDelays : ClickTarget(hex, ms)
        /\ ~\E e \in Reach(Prompted) :
                state.U[e].row = hex[1] /\ state.U[e].col = hex[2]

(***************************************************************************)
(* C18.  A target click on a hex without a valid target for the prompted   *)
(* unit appends one log line and changes nothing else: no selection, the   *)
(* same prompted unit and current player, the same phase, no unit moved or *)
(* damaged, no modal opened and no timer set.                              *)
(***************************************************************************)
C18_RejectedClick ==
    [][RejectedClick
        => /\ Len(state'.log) = Len(state.log) + 1
           /\ state'.log[Len(state'.log)].ability = "none"
           /\ state' = [state EXCEPT !.log = state'.log]
           /\ unitPicker' = unitPicker
           /\ damageModal' = damageModal
           /\ btnDisabled' = btnDisabled
           /\ Len(timers') = Len(timers)]_vars

\* a click has been rejected and the same unit is still being prompted
C18_Witness ==
    /\ state.phase = ABILITY_TARGETING
    /\ Prompted # NoUnit
    /\ \E n \in DOMAIN state.log :
            state.log[n].ability = "none" /\ state.log[n].unit = Prompted

\* the unit named by unit i's recorded selection (NoUnit when it names none)
Selected(i) ==
    IF i \in Recorded(state) THEN state.abilityTargeting.selections[i].unitId
    ELSE NoUnit

\* the unit named by unit i's recorded selection is gone
SelectionGone(i) ==
    /\ Selected(i) # NoUnit
    /\ ~(Selected(i) \in LiveUnits)

(***************************************************************************)
(* C19.  A unit whose recorded selection names a unit that has left the    *)
(* live set or is no longer alive applies no effect in the melee and the   *)
(* ranged step, on no target, and the pass goes on to its next step.       *)
(***************************************************************************)
C19_DroppedSelection ==
    [][\A k \in DOMAIN timers :
        AbilityStep(k)
            => /\ \A n \in DOMAIN Effects :
                    ~(Effects[n].ability \in {"Pierce", "Taunt", "Volley"}
                        /\ SelectionGone(Effects[n].unit))
               /\ (\E i \in LiveUnits : SelectionGone(i))
                    => \E j \in DOMAIN timers' :
                            /\ timers'[j].kind = "res"
                            /\ timers'[j].done = Append(timers[k].done, timers[k].pc)]_vars

\* the ranged step has run while the Archers' selection named a destroyed
\* unit and another enemy stood in the Archers' reach: nothing was hit
C19_Witness ==
    /\ \E k \in DOMAIN timers :
            timers[k].done # << >> /\ timers[k].done[Len(timers[k].done)] = "ranged"
    /\ state.log = << >>
    /\ \E i \in LiveUnits :
        /\ state.U[i].type = ARCHERS
        /\ SelectionGone(i)
        /\ Eligible(i)
        /\ ~(i \in state.unitsInCombatThisTurn)
        /\ \A e \in Reach(i) : state.U[e].damage = 0

\* the types whose abilities resolve in the step pc
StepTypes(pc) == IF pc = "melee" THEN {SPEARS, JESTERS} ELSE {ARCHERS, CANNON}

\* the effects applied in this step before the n-th one
Before(n) == SubSeq(Effects, 1, n - 1)

\* where unit e stands when the n-th effect of this step is applied: on the
\* hex of the last Jesters that taunted it, or where it stood before
PosAt(e, n) ==
    LET taunts == SelectSeq(Before(n), LAMBDA line :
                        line.ability = "Taunt" /\ line.target = e)
    IN  IF taunts = << >> THEN <<state.U[e].row, state.U[e].col>>
        ELSE taunts[Len(taunts)].from

\* unit e is alive when the n-th effect of this step is applied
AliveAt(e, n) ==
    LET hits == SelectSeq(Before(n), LAMBDA line : line.target = e)
    IN  state.U[e].damage + SumSeq([m \in DOMAIN hits |-> hits[m].damage])
            < state.U[e].maxHp

\* the enemies in unit i's reach when the n-th effect is applied, in the
\* order of the live unit list
EnumeratedAt(i, n) ==
    SelectSeq(state.units, LAMBDA e :
        /\ AliveAt(e, n)
        /\ state.U[e].faction # state.U[i].faction
        /\ LET d == hexDistance(PosAt(i, n)[1], PosAt(i, n)[2],
                                PosAt(e, n)[1], PosAt(e, n)[2])
           IN  IF state.U[i].type \in {SPEARS, JESTERS} THEN d = 1
               ELSE d \in {1, 2})

\* the default target of unit i when the n-th effect is applied
DefaultAt(i, n) ==
    IF /\ state.U[i].type = ARCHERS
       /\ state.U[i].lastTarget # NoUnit
       /\ state.U[i].lastTarget \in Range(EnumeratedAt(i, n))
    THEN state.U[i].lastTarget
    ELSE FirstOf(EnumeratedAt(i, n))

\* the index of the first effect that unit i applies in this step
FirstBy(i) == CHOOSE n \in DOMAIN Effects :
    Effects[n].unit = i /\ \A m \in 1..(n - 1) : Effects[m].unit # i

\* the first unit of the live list whose ability comes up in the step pc:
\* it is not skipped and it has a selection or a target
FirstUp(pc) ==
    FirstOf(SelectSeq(state.units, LAMBDA i :
        /\ state.U[i].type \in StepTypes(pc)
        /\ i \in LiveUnits
        /\ ~isEngaged(state, i)
        /\ ~(i \in state.unitsInCombatThisTurn)
        /\ (i \in Recorded(state) \/ Reach(i) # {})))

(***************************************************************************)
(* C20.  In the melee and the ranged step every effect of a unit without a *)
(* recorded selection hits the unit's default target as it is when the     *)
(* effect is applied: for Archers the remembered last target if that is in *)
(* reach and otherwise the first enemy in reach in live-list order, for    *)
(* Spears and Jesters the first enemy in reach, for Cannon the hex of the  *)
(* first enemy in reach; and the first unit whose ability comes up, when   *)
(* it has no selection, does apply its effect.                             *)
(***************************************************************************)
C20_DefaultTarget ==
    [][\A k \in DOMAIN timers :
        AbilityStep(k)
            => /\ \A n \in DOMAIN Effects :
                    LET u == Effects[n].unit
                        d == DefaultAt(u, FirstBy(u))
                    IN  ~(u \in Recorded(state))
                            => /\ d # NoUnit
                               /\ Effects[n].at = PosAt(d, FirstBy(u))
                               /\ state.U[u].type # CANNON => Effects[n].target = d
               /\ LET u == FirstUp(timers[k].pc)
                  IN  u # NoUnit /\ ~(u \in Recorded(state))
                        => /\ \/ /\ state.U[u].type = ARCHERS
                                 /\ state.U[u].movedThisTurn
                                 /\ state.U[u].lastTarget # NoUnit
                              \/ Effects # << >>
                           /\ Effects # << >> => Effects[1].unit = u]_vars

\* nobody was asked for a target; the Jesters has taunted the first of the
\* two Militia next to it, and the Spears, the Archers and the Cannon have
\* hit that Militia where it stands now
C20_Witness ==
    /\ \E k \in DOMAIN timers :
            timers[k].done # << >> /\ timers[k].done[Len(timers[k].done)] = "ranged"
    /\ Recorded(state) = {}
    /\ \E v, m \in DOMAIN state.log :
        /\ state.log[v].ability = "Volley"
        /\ state.log[m].ability = "Mortar"
        /\ state.log[v].target = state.log[m].target
        /\ LET e == state.log[v].target
           IN  /\ state.U[e].damage = calculateSpearsPierceDamage
                    + state.log[v].damage + state.log[m].damage
               /\ \E j \in LiveUnits :
                    /\ state.U[j].type = JESTERS
                    /\ state.U[j].row = state.U[e].row
                    /\ state.U[j].col = state.U[e].col
               /\ \E e2 \in LiveUnits :
                    e2 > e /\ state.U[e2].faction = state.U[e].faction

(***************************************************************************)
(* C21.  The Volley of an Archers on its target (the recorded selection,   *)
(* or the default) deals 2, less 1 if the Archers moved this turn, less 1  *)
(* if it remembers a last target other than this one: 0, 1 or 2, and 0     *)
(* exactly when it moved and the target is not the remembered one.  A      *)
(* Volley of 0 damages nobody and leaves the remembered target as it was;  *)
(* any other Volley makes its target the remembered one.                   *)
(***************************************************************************)
C21_VolleyDamage ==
    [][ApiResolveRangedAbilities
        => \A i \in LiveUnits :
            state.U[i].type = ARCHERS /\ ~isEngaged(state, i)
                /\ ~(i \in state.unitsInCombatThisTurn)
            => LET t == IF i \in Recorded(state) THEN Selected(i)
                        ELSE DefaultAt(i, 1)
                   moved == state.U[i].movedThisTurn
                   other == state.U[i].lastTarget # NoUnit
                                /\ state.U[i].lastTarget # t
                   volley == 2 - (IF moved THEN 1 ELSE 0) - (IF other THEN 1 ELSE 0)
               IN  t \in LiveUnits
                    => /\ volley \in {0, 1, 2}
                       /\ volley = 0 <=> moved /\ other
                       /\ \A e \in LiveUnits :
                            Gain(e) = IF e = t THEN volley ELSE 0
                       /\ state'.U[i].lastTarget =
                            IF volley = 0 THEN state.U[i].lastTarget ELSE t
                       /\ volley = 0 <=> Effects = << >>]_vars

\* an Archers that moved and remembered another target has fired at its
\* selected target: nobody is damaged and it remembers what it remembered
C21_Witness ==
    /\ "resolveRangedAbilities" \in hist.api
    /\ \E i \in LiveUnits :
        /\ state.U[i].type = ARCHERS
        /\ state.U[i].movedThisTurn
        /\ i \in Recorded(state)
        /\ Selected(i) \in LiveUnits
        /\ state.U[i].lastTarget \in LiveUnits \ {Selected(i)}
        /\ state.log = << >>
        /\ \A e \in LiveUnits : state.U[e].damage = 0


(***************************************************************************)
(* Movement (C22..C29).                                                    *)
(***************************************************************************)
\* the faction whose movement phase it is
Mover == IF state.phase = FACTION_1 THEN 1 ELSE 2

\* a canvas click in a movement phase
MoveClick == \E hex \in ClickHexes : ClickMove(hex)

HexOf(i) == <<state.U[i].row, state.U[i].col>>

SpearsNextTo(hex) ==
    {u \in LiveUnits :
        /\ state.U[u].type = SPEARS /\ state.U[u].faction # Mover
        /\ hexDistance(state.U[u].row, state.U[u].col, hex[1], hex[2]) = 1
        /\ LivingAt(HexOf(u), Mover) = {}}

\* C23. When the second move of a Mounted takes it onto a hex with a living
\* enemy and a living unengaged enemy Spears stands next to that hex, the
\* Mounted takes exactly 3 damage and no enemy takes damage; when no such
\* Spears stands there, the Mounted takes no damage; the Mounted and an
\* enemy never both take damage.
C23_CounterCharge ==
    [][MoveClick
        => \A m \in LiveUnits :
            LET dest == <<state'.U[m].row, state'.U[m].col>>
                enemies == {e \in LiveUnits : state.U[e].faction # Mover}
            IN  /\ state.U[m].type = MOUNTED /\ state.U[m].faction = Mover
                /\ state.pendingSecondMove = m
                /\ dest # HexOf(m)
                /\ \E e \in enemies : HexOf(e) = dest
                => /\ IF SpearsNextTo(dest) # {}
                      THEN Gain(m) = 3 /\ \A e \in enemies : Gain(e) = 0
                      ELSE Gain(m) = 0
                   /\ ~(Gain(m) > 0 /\ \E e \in enemies : Gain(e) > 0)]_vars

C23_Witness ==
    /\ inFactionPhase
    /\ hist.api = {}
    /\ \E m \in LiveUnits :
        /\ state.U[m].type = MOUNTED /\ state.U[m].damage = 3
        /\ m \in state.activatedUnits
        /\ LivingAt(HexOf(m), Other(state.U[m].faction)) # {}
        /\ \A e \in LiveUnits \ {m} : state.U[e].damage = 0


\* the positions of all units after the step are those before it, but for
\* the units of the set
OnlyMoves(set) ==
    \A i \in DOMAIN state.U \ set :
        state'.U[i].row = state.U[i].row /\ state'.U[i].col = state.U[i].col

Engaged(i) == LivingAt(HexOf(i), Other(state.U[i].faction)) # {}

\* C25. A unit that shares its hex with a living enemy has no legal move and
\* no movement click, by itself or through the Commander, changes its
\* position, unless it is an Assault Beasts.
C25_EngagedStays ==
    [][MoveClick
        => \A i \in LiveUnits :
            Engaged(i) /\ state.U[i].type # ASSAULT_BEASTS
            => /\ getValidMoves(state, i) = {}
               /\ OnlyMoves(DOMAIN state.U \ {i})]_vars


\* C26. The legal destinations of a unit that may move (not engaged, or an
\* Assault Beasts) and is neither Commander nor Aerial are its own hex and
\* every hex of the board at distance 1 with fewer than 2 living units of
\* its side; enemies on a hex make no difference and no hex at distance 2
\* or more is legal, for a Mounted before and after its first move as well.
C26_GroundMoves ==
    \A i \in LiveUnits :
        /\ state.selectedUnit = i
        /\ ~(state.U[i].type \in {COMMANDER, AERIAL})
        /\ ~Engaged(i) \/ state.U[i].type = ASSAULT_BEASTS
        => state.validMoves =
            {HexOf(i)} \cup
            {h \in Hexes :
                /\ hexDistance(state.U[i].row, state.U[i].col, h[1], h[2]) = 1
                /\ Cardinality(LivingAt(h, state.U[i].faction)) < 2}

\* a Mounted that has moved is selected next to a hex with two living units
\* of its side and next to a hex with an enemy
C26_Witness ==
    \E i \in LiveUnits :
        /\ state.selectedUnit = i
        /\ state.U[i].type = MOUNTED /\ state.U[i].movedThisTurn
        /\ \E h \in Hexes :
            /\ hexDistance(state.U[i].row, state.U[i].col, h[1], h[2]) = 1
            /\ Cardinality(LivingAt(h, state.U[i].faction)) = 2
        /\ \E h \in state.validMoves :
            LivingAt(h, Other(state.U[i].faction)) # {}


ForwardHexes(c) ==
    {HexOf(f) : f \in
        {f \in LiveUnits \ {c} :
            /\ state.U[f].faction = state.U[c].faction
            /\ hexDistance(state.U[c].row, state.U[c].col,
                           state.U[f].row, state.U[f].col) \in {1, 2}}}

\* C28. The set that getValidMoves returns for a Commander that is not
\* engaged is ForwardHexes.  A movement click made with the Commander
\* selected that relocates a unit relocates a living unit of the Commander's
\* side from one of these hexes to one of that unit's own legal
\* destinations, leaves the Commander where it is and puts the Commander in
\* the acted set.
C28_Forward ==
    [][MoveClick
        => \A c \in LiveUnits :
            state.U[c].type = COMMANDER /\ ~Engaged(c)
            => /\ getValidMoves(state, c) = ForwardHexes(c)
               /\ state.selectedUnit = c
                    => \A x \in DOMAIN state.U :
                        <<state'.U[x].row, state'.U[x].col>> # HexOf(x)
                        => /\ x \in LiveUnits \ {c}
                           /\ state.U[x].faction = state.U[c].faction
                           /\ HexOf(x) \in ForwardHexes(c)
                           /\ <<state'.U[x].row, state'.U[x].col>>
                                \in getValidMoves(state, x)
                           /\ c \in state'.activatedUnits]_vars

\* the first half of C28 on its own, for the positions of SpecMoves
CommanderMoves ==
    \A c \in LiveUnits :
        state.selectedUnit = c /\ state.U[c].type = COMMANDER /\ ~Engaged(c)
        => state.validMoves = ForwardHexes(c)


\* C29. A movement click changes the position of units of the player whose
\* phase it is only, never that of a unit that is in the acted set, and
\* when the clicked hex is not in the legal destination set it changes no
\* position and no damage.
C29_MoveFrame ==
    [][\A hex \in ClickHexes :
        ClickMove(hex)
        => /\ \A x \in DOMAIN state.U :
                <<state'.U[x].row, state'.U[x].col>> # HexOf(x)
                => /\ state.U[x].faction = Mover
                   /\ ~(x \in state.activatedUnits)
           /\ ~(hex \in state.validMoves)
                => \A x \in DOMAIN state.U :
                    /\ <<state'.U[x].row, state'.U[x].col>> = HexOf(x)
                    /\ Gain(x) = 0]_vars


\* C30. The step that ends a resolution pass without a winner leaves the
\* phase Faction1Move, the round one higher, every unit of the live list
\* with its moved flag false and no remembered target, the acted set empty
\* and no unit pending a second move; no other step changes the round.
C30_NextRound ==
    [][/\ ResolutionStepTaken("win") /\ hist'.winResult.winner = 0
            => /\ state'.phase = FACTION_1
               /\ state'.round = state.round + 1
               /\ \A i \in Range(state'.units) :
                    /\ ~state'.U[i].movedThisTurn
                    /\ state'.U[i].lastTarget = NoUnit
               /\ state'.activatedUnits = {}
               /\ state'.pendingSecondMove = NoUnit
       /\ state'.round # state.round
            => ResolutionStepTaken("win") /\ hist'.winResult.winner = 0]_vars

\* the round after one in which a unit moved and the Archers, out of
\* combat, fired at an enemy
C30_Witness ==
    /\ state.phase = FACTION_1
    /\ state.round = StartRound + 1
    /\ hist.moves > 0
    /\ hist.winResult.winner = 0
    /\ \E k \in DOMAIN hist.lastDone : hist.lastDone[k] = "ranged"
    /\ \E a \in LiveUnits, e \in LiveUnits :
        /\ state.U[a].type = ARCHERS /\ state.U[a].damage = 0
        /\ state.U[e].faction # state.U[a].faction
        /\ state.U[e].damage > 0


(***************************************************************************)
(* Bookkeeping sets, destroyed units and geometry (C31..C40).              *)
(***************************************************************************)
\* the living units on the engaged hexes
EngagedUnits == UNION {LivingAt(h, 1) \cup LivingAt(h, 2) : h \in EngagedHexes}

\* the units of the engaged groups of the combat step that waits for an
\* allocation
GroupUnits(groups) ==
    UNION {Range(groups[g].faction1) \cup Range(groups[g].faction2) :
            g \in DOMAIN groups}

\* C31. The acted set is empty in the state in which the phase has just
\* become Faction1Move or Faction2Move.  The fought-this-pass set is empty
\* when the combat step of a resolution pass begins, and when that step has
\* finished (at once, or with the last allocation answered) it holds exactly
\* the units of the engaged groups of that step.
C31_Bookkeeping ==
    [][/\ state'.phase # state.phase /\ state'.phase \in {FACTION_1, FACTION_2}
            => state'.activatedUnits = {}
       /\ \A k \in DOMAIN timers :
            CombatStep(k)
            => /\ state.unitsInCombatThisTurn = {}
               /\ ~damageModal'.open
                    => state'.unitsInCombatThisTurn = EngagedUnits
       /\ AllocationConfirmed /\ ~damageModal'.open
            => state'.unitsInCombatThisTurn = GroupUnits(damageModal.cont.groups)]_vars


\* this step ends the combat step of a resolution pass: the step itself when
\* it asks for no allocation, or the answer to its last allocation request
CombatStepEnds ==
    /\ \/ \E k \in DOMAIN timers : CombatStep(k)
       \/ AllocationConfirmed
    /\ ~damageModal'.open

\* C32. When the combat step of a resolution pass has finished, no unit of
\* the live list has damage >= maxHp, units destroyed by a Charge or a
\* Counter Charge in the movement phases included, and every unit that the
\* step removed from the live list has been appended to the destroyed list
\* of the other player.  (Runs in which the rules engine was called
\* directly are left out.)
C32_DeadRemoved ==
    [][CombatStepEnds /\ hist.api = {}
        => /\ \A i \in Range(state'.units) : state'.U[i].damage < state'.U[i].maxHp
           /\ \A i \in Range(state.units) \ Range(state'.units) :
                LET f == Other(state.U[i].faction)
                    old == state.destroyedUnits[f]
                    new == state'.destroyedUnits[f]
                IN  /\ Len(new) > Len(old)
                    /\ SubSeq(new, 1, Len(old)) = old
                    /\ \E n \in (Len(old) + 1)..Len(new) : new[n] = i]_vars


\* hexDistance between the hexes of two units
Dist(i, j) ==
    hexDistance(state.U[i].row, state.U[i].col, state.U[j].row, state.U[j].col)

\* C33. hexDistance is a metric on the board: for the hexes a, b, c of the
\* first three units (any three hexes of the board), distance(a,b) =
\* distance(b,a), distance(a,b) = 0 exactly when a = b, and distance(a,c) <=
\* distance(a,b) + distance(b,c).
C33_Metric ==
    LET ab == Dist(1, 2)
    IN  /\ ab = Dist(2, 1)
        /\ ab = 0 <=> HexOf(1) = HexOf(2)
        /\ Dist(1, 3) <= ab + Dist(2, 3)

\* the Commander is selected with one unit three hexes from it in one
\* corner and the other unit in between, on a shortest way
C33_Witness ==
    /\ state.selectedUnit = 1
    /\ HexOf(2) = <<0, 0>>
    /\ Dist(1, 2) = 3 /\ Dist(1, 3) = 1 /\ Dist(3, 2) = 2
    /\ state.U[1].col # state.U[2].col

\* C34. For the hex of the second unit (any hex of the board),
\* getAdjacentHexes returns exactly the hexes of the board at hexDistance 1
\* from it: at most 6, none out of bounds, none twice; the hex of the third
\* unit (any hex) is among them exactly when the reverse holds, and then
\* their distance is 1.
C34_Adjacent ==
    LET adjacent == getAdjacentHexes(state.U[2].row, state.U[2].col)
        back == getAdjacentHexes(state.U[3].row, state.U[3].col)
    IN  /\ Range(adjacent) =
            {h \in Hexes :
                hexDistance(state.U[2].row, state.U[2].col, h[1], h[2]) = 1}
        /\ Len(adjacent) <= 6
        /\ Cardinality(Range(adjacent)) = Len(adjacent)
        /\ HexOf(3) \in Range(adjacent) <=> HexOf(2) \in Range(back)
        /\ HexOf(3) \in Range(adjacent) => Dist(2, 3) = 1

\* a Militia in a corner is selected with the other Militia next to it, in
\* an odd column
C34_Witness ==
    /\ state.selectedUnit = 2
    /\ HexOf(2) = <<5, 5>>
    /\ HexOf(3) \in state.validMoves
    /\ HexOf(3) # HexOf(2)
    /\ Len(getAdjacentHexes(5, 5)) = 2


\* the units of the game that were created before unit i with its faction
\* and type (state.U holds the units in the order of their creation)
EarlierOfPair(i) ==
    {j \in DOMAIN state.U :
        /\ j < i
        /\ state.U[j].faction = state.U[i].faction
        /\ state.U[j].type = state.U[i].type}

\* C35. In every game the sequence number of a unit is 1 plus the number of
\* units of its faction and type created before it in that game, destroyed
\* ones included: each pair counts 1, 2, 3, ... in creation order whatever
\* is created for other pairs, no number is given twice for a pair, and
\* every game starts at 1.
C35_SequenceNumbers ==
    \A i \in DOMAIN state.U :
        state.U[i].number = 1 + Cardinality(EarlierOfPair(i))


\* the round's Faction2Move ended with no unit needing targeting: the last
\* targeting session was opened in an earlier round, or never
NoSession == hist.session # state.round

\* the first unit of the live list whose ability comes up in the step pc
\* under the default-target rule
FirstUpByDefault(pc) ==
    FirstOf(SelectSeq(state.units, LAMBDA i :
        /\ state.U[i].type \in StepTypes(pc)
        /\ i \in LiveUnits
        /\ ~isEngaged(state, i)
        /\ ~(i \in state.unitsInCombatThisTurn)
        /\ Reach(i) # {}))

(***************************************************************************)
(* C36.  In a round whose Faction2Move ended with no unit needing          *)
(* targeting, the melee and the ranged step resolve every ability by the   *)
(* default-target rule, whatever selections an earlier round's session has *)
(* left behind: every effect hits the default target of its unit, and the  *)
(* first unit that has an enemy in reach applies its effect.               *)
(***************************************************************************)
C36_LeftoverSelection ==
    [][\A k \in DOMAIN timers :
        AbilityStep(k) /\ NoSession
            => /\ \A n \in DOMAIN Effects :
                    LET u == Effects[n].unit
                        d == DefaultAt(u, FirstBy(u))
                    IN  /\ d # NoUnit
                        /\ Effects[n].at = PosAt(d, FirstBy(u))
                        /\ state.U[u].type # CANNON => Effects[n].target = d
               /\ LET u == FirstUpByDefault(timers[k].pc)
                  IN  u # NoUnit
                        => /\ \/ /\ state.U[u].type = ARCHERS
                                 /\ state.U[u].movedThisTurn
                                 /\ state.U[u].lastTarget # NoUnit
                              \/ Effects # << >>
                           /\ Effects # << >> => Effects[1].unit = u]_vars


\* the number of places of the sequence q that hold unit i
Times(q, i) == Cardinality({n \in DOMAIN q : q[n] = i})

\* unit i is in exactly one place: once in the live list, or once in the
\* destroyed list of the other player
OnePlace(i) ==
    LET f == state.U[i].faction
    IN  /\ Times(state.units, i) + Times(state.destroyedUnits[Other(f)], i) = 1
        /\ Times(state.destroyedUnits[f], i) = 0

(***************************************************************************)
(* C37.  In play no unit is created; every unit is at all times in exactly *)
(* one place, the live list or the destroyed list of the other player, and *)
(* in that place once; no unit changes its type or its faction; and the    *)
(* destroyed lists only grow at their end.                                 *)
(***************************************************************************)
C37_UnitPlaces ==
    /\ [](\A i \in DOMAIN state.U : OnePlace(i))
    /\ [][/\ DOMAIN state'.U = DOMAIN state.U
          /\ \A i \in DOMAIN state.U :
                /\ state'.U[i].type = state.U[i].type
                /\ state'.U[i].faction = state.U[i].faction
          /\ \A f \in {1, 2} :
                /\ Len(state'.destroyedUnits[f]) >= Len(state.destroyedUnits[f])
                /\ SubSeq(state'.destroyedUnits[f], 1, Len(state.destroyedUnits[f]))
                        = state.destroyedUnits[f]]_vars

\* a unit of Player 1 is on the destroyed list of Player 2 and no longer in
\* the live list, while other units are still in play
C37_Witness ==
    /\ state.units # << >>
    /\ \E n \in DOMAIN state.destroyedUnits[2] :
        LET i == state.destroyedUnits[2][n]
        IN  /\ state.U[i].faction = 1
            /\ ~(i \in Range(state.units))


(***************************************************************************)
(* C38.  Once the phase is ResolutionCombat the game reaches Faction1Move  *)
(* or GameOver, with no help from the players but their answers to the     *)
(* allocation requests; and the step from ResolutionCombat to Faction1Move *)
(* increments the round.                                                   *)
(***************************************************************************)
C38_ResolutionEnds ==
    /\ (state.phase = RESOLUTION_COMBAT)
            ~> (state.phase \in {FACTION_1, GAME_OVER})
    /\ [][state.phase = RESOLUTION_COMBAT /\ state'.phase = FACTION_1
            => state'.round = state.round + 1]_vars


\* a resolution in which an allocation request was answered has ended and
\* the next round has begun
C38_Witness ==
    /\ state.phase = FACTION_1
    /\ state.round = StartRound + 1
    /\ hist.lastAlloc # << >>
    /\ timers = << >>

C40_NoLastTarget ==
    [][ResolutionStepTaken("ranged")
        => /\ \A i \in Range(state.units) :
                state.U[i].type = ARCHERS => state.U[i].lastTarget = NoUnit
           /\ \A n \in DOMAIN Effects :
                Effects[n].ability = "Volley"
                    => Effects[n].damage =
                        IF state.U[Effects[n].unit].movedThisTurn THEN 1 ELSE 2]_vars

====
